---- MODULE Spec2Model ----
(***************************************************************************)
(* Model of the workflow coordination layer of prior-auth-fastlane:        *)
(*   adws/adw_modules/context_handoff.py  (ContextHandoff)                 *)
(*   adws/adw_modules/metrics.py          (WorkflowMetrics)                *)
(*   adws/adw_plan_build_test_iso.py      (plan-build-test pipeline)       *)
(*   adws/adw_expert_invoice.py           (expert workflow)                *)
(*   adws/adw_plan_optimized_example.py   (optimized plan orchestrator)    *)
(*                                                                         *)
(* Python dicts are functions with a finite domain; a dict whose iteration *)
(* order is observable (the handoff file) is a sequence of <<key, value>>  *)
(* pairs in insertion order.  Money is counted in micro-dollars so that    *)
(* the price table (3 and 15 USD per million tokens) stays integral.       *)
(***************************************************************************)
EXTENDS Integers, Sequences, FiniteSets, TLC

VARIABLES
    handoff_file,   \* WID -> [exists, data]: agents/<wid>/context_handoff.json
    saved,          \* WID -> phase -> data of the last save since the last clear
    nsaves,         \* number of ContextHandoff.save calls made so far
    hret,           \* return value of the last ContextHandoff call
    metrics_file,   \* WID -> [exists, data]: agents/<wid>/metrics.json
    clock,          \* WID -> datetime.utcnow() in its process, in ticks
    nrecorded,      \* WID -> phase -> number of record_phase calls that returned
    mret,           \* the last WorkflowMetrics call and what it returned
    prog,           \* the entry point that was launched
    p_pc,           \* plan-build-test pipeline: position in main
    p_log,          \* plan-build-test pipeline: phase scripts started and returned
    p_exit,         \* plan-build-test pipeline: exit status of the process
    p_skip_e2e,     \* plan-build-test pipeline: --skip-e2e was given
    e_pc,           \* expert workflow: position in main
    e_exit,         \* expert workflow: exit status of the process
    e_trace,        \* expert workflow: what this run has done so far, in order
    e_runs,         \* expert workflow: runs started with this WID
    e_plan_file,    \* expert workflow: the local plan_file
    o_pc,           \* optimized plan: WID -> position in main of its process
    o_exit,         \* optimized plan: WID -> exit status of its process
    o_state,        \* optimized plan: WID -> the ADWState object in memory
    o_disk,         \* WID -> the persisted state file (None: no file)
    o_local,        \* optimized plan: WID -> local variables of main
    o_trace,        \* optimized plan: WID -> what the run has done so far
    o_runs,         \* optimized plan: runs started so far
    worktrees,      \* the worktree directories that exist on disk
    bound,          \* the network ports some process has bound
    port_index,     \* WID -> the index get_ports_for_adw hashes it to
    probed,         \* WID -> the ports that were bound when its run probed
    h_call,         \* process -> the save it is in: what it loaded and will write
    m_call,         \* process -> the record_phase it is in, likewise
    overlapped      \* a write was made while another call on the record was under way

hvars == <<handoff_file, saved, nsaves, hret>>

mvars == <<metrics_file, clock, nrecorded, mret>>

pvars == <<p_pc, p_log, p_exit, p_skip_e2e>>

evars == <<e_pc, e_exit, e_trace, e_runs, e_plan_file>>

xvars == <<o_pc, o_exit, o_state, o_disk, o_local, o_trace, o_runs,
           worktrees, bound, port_index, probed>>

\* calls of processes that share a WID, between their load and their write
cvars == <<h_call, m_call, overlapped>>

\* the orchestrators' state
ovars == <<prog, pvars, evars, xvars>>

-----------------------------------------------------------------------------
(* Bounds and input sets                                                   *)

MaxSaves == 2

MaxRecords == 2

WIDs == {"w1", "w2"}

\* context_handoff.py:91
phase_order == <<"plan", "build", "test", "review", "ship">>

OrderedPhases == {phase_order[i] : i \in 1..Len(phase_order)}

\* phase names outside the fixed order (the expert workflow's)
OtherPhases == {"expert_plan", "expert_build"}

Phases == OrderedPhases \cup OtherPhases

EmptyMap == [k \in {} |-> ""]

\* the context dictionaries the callers hand to save
HandoffData ==
    { EmptyMap,
      [plan_file |-> "a", issue_number |-> "1"],
      [plan_file |-> "b"],
      [files_changed |-> "x"],
      [plan_file |-> "c", files_changed |-> "y"] }

-----------------------------------------------------------------------------
(* Python dict primitives                                                  *)

\* Optional[T]: None, or a value
None == <<>>

Some(v) == <<v>>

Val(o) == o[1]

DictUpdate_earlier_wins(d1, d2) ==
    [k \in DOMAIN d1 \cup DOMAIN d2 |-> IF k \in DOMAIN d1 THEN d1[k] ELSE d2[k]]

\* d1.update(d2): the keys of d2 override those of d1
DictUpdate(d1, d2) ==
    [k \in DOMAIN d1 \cup DOMAIN d2 |-> IF k \in DOMAIN d2 THEN d2[k] ELSE d1[k]]

\* keys of an insertion-ordered dict
OKeys(od) == {od[i][1] : i \in 1..Len(od)}

\* od[k] of an insertion-ordered dict (k in od)
OGet(od, k) == od[CHOOSE i \in 1..Len(od) : od[i][1] = k][2]

\* od[k] = v: an existing key keeps its position, a new key goes last
OSet(od, k, v) ==
    IF k \in OKeys(od)
    THEN [i \in 1..Len(od) |-> IF od[i][1] = k THEN <<k, v>> ELSE od[i]]
    ELSE Append(od, <<k, v>>)

-----------------------------------------------------------------------------
(* ContextHandoff                                                          *)

handoff_file_of_shared(adw_id) == "w1"

\* ContextHandoff.__init__: agents/<adw_id>/context_handoff.json, named by
\* its directory
handoff_file_of(adw_id) == adw_id

\* WorkflowMetrics.__init__: agents/<adw_id>/metrics.json, named by its
\* directory
metrics_file_of(adw_id) == adw_id

\* no file; a file holds JSON data, or is corrupt (not valid JSON)
NoFile == [exists |-> FALSE, data |-> <<>>, corrupt |-> FALSE]

handoff_load_unread(f) == <<>>

\* ContextHandoff.load
handoff_load(f) == IF ~f.exists THEN <<>> ELSE f.data

handoff_save_replacing(f, phase, data) ==
    [exists |-> TRUE, data |-> << <<phase, data>> >>, corrupt |-> FALSE]

handoff_save_merging(f, phase, data) ==
    LET handoff == IF f.exists THEN handoff_load(f) ELSE <<>>
        merged == IF phase \in OKeys(handoff)
                  THEN DictUpdate(OGet(handoff, phase), data) ELSE data
    IN  [exists |-> TRUE, data |-> OSet(handoff, phase, merged), corrupt |-> FALSE]

\* ContextHandoff.save: the file after save(phase, data)
handoff_save(f, phase, data) ==
    LET handoff == IF f.exists THEN handoff_load(f) ELSE <<>>
    IN  [exists |-> TRUE, data |-> OSet(handoff, phase, data), corrupt |-> FALSE]

fold_all_first_only(od) == IF od = <<>> THEN EmptyMap ELSE od[1][2]

\* {k: v for phase_data in handoff.values() for k, v in phase_data.items()}
RECURSIVE fold_all(_)
fold_all(od) ==
    IF od = <<>> THEN EmptyMap
    ELSE DictUpdate(fold_all(SubSeq(od, 1, Len(od) - 1)), od[Len(od)][2])

\* the loop over range(current_idx): phase_order[1..n] folded in order
RECURSIVE accumulate(_, _)
accumulate(handoff, n) ==
    IF n = 0 THEN EmptyMap
    ELSE LET acc == accumulate(handoff, n - 1)
             previous_phase == phase_order[n]
         IN  IF previous_phase \in OKeys(handoff)
             THEN DictUpdate(acc, OGet(handoff, previous_phase))
             ELSE acc

\* phase_order.index(phase), 0-based as in Python (phase in phase_order)
index(phase) == (CHOOSE i \in 1..Len(phase_order) : phase_order[i] = phase) - 1

load_for_phase_inclusive(f, phase) ==
    LET handoff == handoff_load(f)
    IN  IF phase \notin OrderedPhases
        THEN fold_all(handoff)
        ELSE accumulate(handoff, index(phase) + 1)

\* ContextHandoff.load_for_phase
load_for_phase(f, phase) ==
    LET handoff == handoff_load(f)
    IN  IF phase \notin OrderedPhases
        THEN fold_all(handoff)
        ELSE accumulate(handoff, index(phase))

\* ContextHandoff.get_phase: handoff.get(phase)
get_phase(f, phase) ==
    LET handoff == handoff_load(f)
    IN  IF phase \in OKeys(handoff) THEN Some(OGet(handoff, phase)) ELSE None

handoff_clear_first_phase_only(f) ==
    IF f.exists THEN [f EXCEPT !.data = Tail(@)] ELSE f

\* ContextHandoff.clear
handoff_clear(f) == IF f.exists THEN NoFile ELSE f

\* the required and optional keys of the phases that declare a schema
HANDOFF_SCHEMAS ==
    [ plan   |-> [required |-> <<"plan_file", "issue_number">>,
                  optional |-> <<"branch_name", "issue_class">>],
      build  |-> [required |-> <<"files_changed">>,
                  optional |-> <<"test_command", "build_warnings">>],
      test   |-> [required |-> <<"tests_passed">>,
                  optional |-> <<"coverage", "failed_tests">>],
      review |-> [required |-> <<"approved">>,
                  optional |-> <<"comments", "issues">>],
      ship   |-> [required |-> <<"pr_url">>,
                  optional |-> <<"deployed">>] ]

\* ', '.join(keys)
RECURSIVE Join(_)
Join(keys) ==
    IF keys = <<>> THEN ""
    ELSE IF Len(keys) = 1 THEN keys[1]
    ELSE keys[1] \o ", " \o Join(Tail(keys))

validate_handoff_optional_required(phase, data) ==
    IF phase \notin DOMAIN HANDOFF_SCHEMAS
    THEN <<TRUE, None>>
    ELSE LET required == HANDOFF_SCHEMAS[phase].required
                         \o HANDOFF_SCHEMAS[phase].optional
             missing == SelectSeq(required, LAMBDA key : key \notin DOMAIN data)
         IN  IF missing # <<>>
             THEN <<FALSE, Some("Missing required keys for " \o phase \o ": "
                                \o Join(missing))>>
             ELSE <<TRUE, None>>

\* validate_handoff: (is_valid, error_message)
validate_handoff(phase, data) ==
    IF phase \notin DOMAIN HANDOFF_SCHEMAS
    THEN <<TRUE, None>>
    ELSE LET required == HANDOFF_SCHEMAS[phase].required
             missing == SelectSeq(required, LAMBDA key : key \notin DOMAIN data)
         IN  IF missing # <<>>
             THEN <<FALSE, Some("Missing required keys for " \o phase \o ": "
                                \o Join(missing))>>
             ELSE <<TRUE, None>>

\* the dictionaries handed to validate_handoff
ValidatedKeys == {"plan_file", "issue_number", "branch_name", "files_changed"}

\* the dictionaries handed to validate_handoff: any of the keys present
ValidatedData == UNION {[keys -> {"v"}] : keys \in SUBSET ValidatedKeys}

\* json.load(f) of load raises JSONDecodeError: the file is not valid JSON
json_load_raises(f) == f.exists /\ f.corrupt

\* a crash in the middle of json.dump leaves a truncated file
truncated_file == [exists |-> TRUE, data |-> <<>>, corrupt |-> TRUE]

NoRet == [op |-> "none", phase |-> "", val |-> EmptyMap]

\* the call ended with an exception instead of a return value
HRaised(call, phase) ==
    [op |-> "raised", phase |-> phase, val |-> EmptyMap, call |-> call]

HInit ==
    /\ handoff_file = [w \in WIDs |-> NoFile]
    /\ saved = [w \in WIDs |-> EmptyMap]
    /\ nsaves = 0
    /\ hret = NoRet

\* what handoff.save(phase, data) on the instance of WID w does
DoSave(w, phase, data) ==
    /\ nsaves' = nsaves + 1
    /\ IF json_load_raises(handoff_file[handoff_file_of(w)])
       THEN /\ hret' = HRaised("save", phase)
            /\ UNCHANGED <<handoff_file, saved>>
       ELSE /\ handoff_file' = [handoff_file EXCEPT
                                  ![handoff_file_of(w)] = handoff_save(@, phase, data)]
            /\ saved' = [saved EXCEPT ![w] =
                            [p \in DOMAIN @ \cup {phase} |->
                                IF p = phase THEN data ELSE @[p]]]
            /\ hret' = [op |-> "save", phase |-> phase, val |-> EmptyMap]

\* what handoff.load_for_phase(phase) on the instance of WID w does
DoLoadForPhase(w, phase) ==
    /\ hret' = IF json_load_raises(handoff_file[handoff_file_of(w)])
               THEN HRaised("load_for_phase", phase)
               ELSE [op |-> "load_for_phase", phase |-> phase,
                     val |-> load_for_phase(handoff_file[handoff_file_of(w)], phase)]
    /\ UNCHANGED <<handoff_file, saved, nsaves>>

\* handoff.save(phase, data)
Save(w, phase, data) ==
    /\ nsaves < MaxSaves
    /\ DoSave(w, phase, data)
    /\ UNCHANGED <<mvars, ovars, cvars>>

\* handoff.clear()
Clear(w) ==
    /\ handoff_file' = [handoff_file EXCEPT ![handoff_file_of(w)] = handoff_clear(@)]
    /\ saved' = [saved EXCEPT ![w] = EmptyMap]
    /\ hret' = [op |-> "clear", phase |-> "", val |-> EmptyMap]
    /\ UNCHANGED <<nsaves, mvars, ovars, cvars>>

\* handoff.load_for_phase(phase)
LoadForPhase(w, phase) ==
    /\ DoLoadForPhase(w, phase)
    /\ UNCHANGED <<mvars, ovars, cvars>>

\* handoff.get_phase(phase)
GetPhase(w, phase) ==
    /\ hret' = IF json_load_raises(handoff_file[handoff_file_of(w)])
               THEN HRaised("get_phase", phase)
               ELSE [op |-> "get_phase", phase |-> phase,
                     val |-> get_phase(handoff_file[handoff_file_of(w)], phase)]
    /\ UNCHANGED <<handoff_file, saved, nsaves, mvars, ovars, cvars>>

\* handoff.load()
Load(w) ==
    /\ hret' = IF json_load_raises(handoff_file[handoff_file_of(w)])
               THEN HRaised("load", "")
               ELSE [op |-> "load", phase |-> "",
                     val |-> handoff_load(handoff_file[handoff_file_of(w)])]
    /\ UNCHANGED <<handoff_file, saved, nsaves, mvars, ovars, cvars>>

\* validate_handoff(phase, data)
ValidateHandoff(phase, data) ==
    /\ hret' = [op |-> "validate_handoff", phase |-> phase,
                val |-> validate_handoff(phase, data), data |-> data]
    /\ UNCHANGED <<handoff_file, saved, nsaves, mvars, ovars, cvars>>

HNext ==
    \/ \E p \in Phases, d \in HandoffData : Save("w1", p, d)
    \/ Clear("w1")
    \/ \E p \in Phases : LoadForPhase("w1", p)

\* saves and clears, read back with get_phase and load
HReadNext ==
    \/ \E p \in Phases, d \in HandoffData : Save("w1", p, d)
    \/ Clear("w1")
    \/ \E p \in Phases : GetPhase("w1", p)
    \/ Load("w1")

VNext == \E p \in Phases, d \in ValidatedData : ValidateHandoff(p, d)

-----------------------------------------------------------------------------
(* WorkflowMetrics                                                         *)

\* Python truthiness of an Optional number: None and 0 are falsy
Truthy(o) == o # None /\ Val(o) # 0

\* (o or 0) of an Optional number
OrZero(o) == IF Truthy(o) THEN Val(o) ELSE 0

\* phases recorded on a WorkflowMetrics instance used on its own
MetricPhases == {"plan", "classify"}

\* every phase name the orchestrators record
RecordedPhases ==
    MetricPhases \cup {"branch_gen", "expert_plan", "expert_build", "expert_improve"}

InputTokens == {None, Some(1000)}

OutputTokens == {None, Some(0), Some(200)}

OutputStyles == {None, Some("concise-ultra")}

Durations == {Some(2), Some(4)}

\* cost_usd, in micro-dollars
Costs == {None, Some(0), Some(5000)}

\* price per token in micro-dollars: 3.0 / 1_000_000 and 15.0 / 1_000_000 USD
PriceIn == 3

PriceOut == 15

\* WorkflowMetrics._calculate_cost
_calculate_cost(input_tokens, output_tokens) ==
    IF input_tokens = None /\ output_tokens = None
    THEN 0
    ELSE LET input_cost == OrZero(input_tokens) * PriceIn
             output_cost == OrZero(output_tokens) * PriceOut
         IN  input_cost + output_cost

\* cost_usd or self._calculate_cost(input_tokens, output_tokens)
cost_or_calculated(cost_usd, input_tokens, output_tokens) ==
    IF Truthy(cost_usd) THEN cost_usd
    ELSE Some(_calculate_cost(input_tokens, output_tokens))

\* the phase_data dictionary of record_phase
phase_data(ts, a) ==
    [ timestamp        |-> ts,
      input_tokens     |-> a.input_tokens,
      output_tokens    |-> a.output_tokens,
      output_style     |-> a.output_style,
      duration_seconds |-> a.duration_seconds,
      cost_usd         |-> cost_or_calculated(a.cost_usd, a.input_tokens,
                                              a.output_tokens) ]

\* WorkflowMetrics.load
metrics_load(f) == IF ~f.exists THEN EmptyMap ELSE f.data

\* WorkflowMetrics.save
metrics_save(metrics) == [exists |-> TRUE, data |-> metrics, corrupt |-> FALSE]

append_sample_overwrite(metrics, phase, sample) ==
    [p \in DOMAIN metrics \cup {phase} |->
        IF p = phase THEN <<sample>> ELSE metrics[p]]

append_sample_prepend(metrics, phase, sample) ==
    [p \in DOMAIN metrics \cup {phase} |->
        IF p # phase THEN metrics[p]
        ELSE IF p \in DOMAIN metrics THEN <<sample>> \o metrics[p] ELSE <<sample>>]

\* metrics[phase].append(phase_data), after metrics[phase] = [] for a new phase
append_sample(metrics, phase, sample) ==
    LET with_phase == IF phase \notin DOMAIN metrics
                      THEN [p \in DOMAIN metrics \cup {phase} |->
                               IF p = phase THEN <<>> ELSE metrics[p]]
                      ELSE metrics
    IN  [with_phase EXCEPT ![phase] = Append(@, sample)]

\* WorkflowMetrics.record_phase: the file after the call
record_phase(f, phase, ts, a) ==
    LET metrics == metrics_load(f)
    IN  metrics_save(append_sample(metrics, phase, phase_data(ts, a)))

\* sum(...) of a list of numbers
RECURSIVE SumSeq(_)
SumSeq(xs) == IF xs = <<>> THEN 0 ELSE xs[1] + SumSeq(Tail(xs))

\* sum(... for phases in metrics.values()) of one number per phase
RECURSIVE SumOver(_, _)
SumOver(S, f) ==
    IF S = {} THEN 0
    ELSE LET x == CHOOSE y \in S : TRUE IN f[x] + SumOver(S \ {x}, f)

total_of_last_sample(metrics, field) ==
    SumOver(DOMAIN metrics,
            [ph \in DOMAIN metrics |->
                OrZero(metrics[ph][Len(metrics[ph])][field])])

\* sum((p.get(field, 0) or 0) for p in phases) for every phase, summed
total_of(metrics, field) ==
    SumOver(DOMAIN metrics,
            [ph \in DOMAIN metrics |->
                SumSeq([i \in 1..Len(metrics[ph]) |-> OrZero(metrics[ph][i][field])])])

\* all_durations, one list per phase, and their count
durations_of(phases) ==
    SelectSeq([i \in 1..Len(phases) |-> phases[i].duration_seconds],
              LAMBDA d : d # None)

\* a quotient a / b, kept as the fraction
Frac(a, b) == [num |-> a, den |-> b]

\* sum(all_durations) / len(all_durations) if all_durations else 0
avg_duration(metrics) ==
    LET total == SumOver(DOMAIN metrics,
                    [ph \in DOMAIN metrics |->
                        SumSeq([i \in 1..Len(durations_of(metrics[ph])) |->
                                   OrZero(durations_of(metrics[ph])[i])])])
        count == SumOver(DOMAIN metrics,
                    [ph \in DOMAIN metrics |-> Len(durations_of(metrics[ph]))])
    IN  IF count # 0 THEN Frac(total, count) ELSE Frac(0, 1)

\* BASELINE_OUTPUT_TOKENS.get(phase, 3000)
BASELINE_OUTPUT_TOKENS(phase) ==
    CASE phase = "plan"   -> 2000
      [] phase = "build"  -> 5000
      [] phase = "test"   -> 3000
      [] phase = "review" -> 4000
      [] phase = "ship"   -> 1000
      [] OTHER            -> 3000

\* p.get("output_tokens", baseline_per_execution) or baseline_per_execution
actual_or_baseline(p, baseline_per_execution) ==
    IF Truthy(p.output_tokens) THEN Val(p.output_tokens) ELSE baseline_per_execution

_calculate_optimization_rate_unguarded(metrics) ==
    LET total_baseline ==
            SumOver(DOMAIN metrics,
                [ph \in DOMAIN metrics |-> Len(metrics[ph]) * BASELINE_OUTPUT_TOKENS(ph)])
        total_actual ==
            SumOver(DOMAIN metrics,
                [ph \in DOMAIN metrics |->
                    SumSeq([i \in 1..Len(metrics[ph]) |->
                        actual_or_baseline(metrics[ph][i], BASELINE_OUTPUT_TOKENS(ph))])])
    IN  Frac(total_baseline - total_actual, total_baseline)

\* WorkflowMetrics._calculate_optimization_rate
_calculate_optimization_rate(metrics) ==
    LET total_baseline ==
            SumOver(DOMAIN metrics,
                [ph \in DOMAIN metrics |-> Len(metrics[ph]) * BASELINE_OUTPUT_TOKENS(ph)])
        total_actual ==
            SumOver(DOMAIN metrics,
                [ph \in DOMAIN metrics |->
                    SumSeq([i \in 1..Len(metrics[ph]) |->
                        actual_or_baseline(metrics[ph][i], BASELINE_OUTPUT_TOKENS(ph))])])
    IN  IF total_baseline = 0 THEN Frac(0, 1)
        ELSE Frac(total_baseline - total_actual, total_baseline)

\* sum(len(phases) for phases in metrics.values())
phase_executions(metrics) ==
    SumOver(DOMAIN metrics, [ph \in DOMAIN metrics |-> Len(metrics[ph])])

\* one entry of phases_breakdown
breakdown(phases) ==
    LET out == SumSeq([i \in 1..Len(phases) |-> OrZero(phases[i].output_tokens)])
    IN  [ executions          |-> Len(phases),
          total_output_tokens |-> out,
          avg_output_tokens   |-> Frac(out, Len(phases)),
          output_style        |-> IF phases # <<>>
                                  THEN phases[Len(phases)].output_style ELSE None ]

\* WorkflowMetrics.get_workflow_summary
get_workflow_summary(w, f) ==
    LET metrics == metrics_load(f)
    IN  [ adw_id               |-> w,
          total_input_tokens   |-> total_of(metrics, "input_tokens"),
          total_output_tokens  |-> total_of(metrics, "output_tokens"),
          total_cost_usd       |-> total_of(metrics, "cost_usd"),
          phases               |-> Cardinality(DOMAIN metrics),
          phase_executions     |-> phase_executions(metrics),
          optimization_rate    |-> _calculate_optimization_rate(metrics),
          avg_duration_seconds |-> avg_duration(metrics),
          phases_breakdown     |-> [ph \in DOMAIN metrics |-> breakdown(metrics[ph])] ]

\* calls that pass token counts and a cost, as adw_expert_invoice.py does
TokenCostArgs ==
    [ input_tokens : InputTokens, output_tokens : OutputTokens,
      output_style : {None}, duration_seconds : {None}, cost_usd : Costs ]

\* calls that pass a style and a duration, as record_phase_metrics does
TimedArgs ==
    [ input_tokens : {None}, output_tokens : {None, Some(200)},
      output_style : OutputStyles \ {None}, duration_seconds : Durations,
      cost_usd : {None} ]

RecordArgs == TokenCostArgs \cup TimedArgs

\* the call ended with an exception instead of a return value
MRaised(call, w) == [op |-> "raised", wid |-> w, call |-> call]

MInit ==
    /\ metrics_file = [w \in WIDs |-> NoFile]
    /\ clock = [w \in WIDs |-> 0]
    /\ nrecorded = [w \in WIDs |-> [p \in RecordedPhases |-> 0]]
    /\ mret = [op |-> "none"]

\* what metrics.record_phase(phase, ...) on the instance of WID w does
DoRecordPhase(w, phase, a) ==
    IF json_load_raises(metrics_file[metrics_file_of(w)])
    THEN /\ mret' = MRaised("record_phase", w)
         /\ UNCHANGED <<metrics_file, clock, nrecorded>>
    ELSE /\ metrics_file' = [metrics_file EXCEPT
                               ![metrics_file_of(w)] = record_phase(@, phase, clock[w], a)]
         /\ clock' = [clock EXCEPT ![w] = @ + 1]
         /\ nrecorded' = [nrecorded EXCEPT ![w][phase] = @ + 1]
         /\ mret' = [op |-> "record_phase", wid |-> w, phase |-> phase, args |-> a]

\* what metrics.get_workflow_summary() on the instance of WID w does
DoGetWorkflowSummary(w) ==
    /\ mret' = IF json_load_raises(metrics_file[metrics_file_of(w)])
               THEN MRaised("get_workflow_summary", w)
               ELSE [op |-> "get_workflow_summary", wid |-> w,
                     summary |-> get_workflow_summary(w, metrics_file[metrics_file_of(w)])]
    /\ UNCHANGED <<metrics_file, clock, nrecorded>>

\* metrics.record_phase(phase, ...)
RecordPhase(w, phase, a) ==
    /\ clock[w] < MaxRecords
    /\ DoRecordPhase(w, phase, a)
    /\ UNCHANGED <<hvars, ovars, cvars>>

\* metrics.get_workflow_summary()
GetWorkflowSummary(w) ==
    /\ DoGetWorkflowSummary(w)
    /\ UNCHANGED <<hvars, ovars, cvars>>

MNext ==
    \/ \E p \in MetricPhases, a \in RecordArgs : RecordPhase("w1", p, a)
    \/ GetWorkflowSummary("w1")

\* metrics.load()
LoadMetrics(w) ==
    /\ mret' = IF json_load_raises(metrics_file[metrics_file_of(w)])
               THEN MRaised("load", w)
               ELSE [op |-> "load", wid |-> w,
                     val |-> metrics_load(metrics_file[metrics_file_of(w)])]
    /\ UNCHANGED <<metrics_file, clock, nrecorded, hvars, ovars, cvars>>

\* the process crashes while save writes the handoff file
CrashInHandoffSave(w) ==
    /\ nsaves < MaxSaves
    /\ ~json_load_raises(handoff_file[handoff_file_of(w)])
    /\ handoff_file' = [handoff_file EXCEPT ![handoff_file_of(w)] = truncated_file]
    /\ nsaves' = nsaves + 1
    /\ hret' = [op |-> "crashed", phase |-> "", val |-> EmptyMap]
    /\ UNCHANGED <<saved, mvars, ovars, cvars>>

\* the process crashes while record_phase writes the metrics file
CrashInMetricsSave(w) ==
    /\ clock[w] < MaxRecords
    /\ ~json_load_raises(metrics_file[metrics_file_of(w)])
    /\ metrics_file' = [metrics_file EXCEPT ![metrics_file_of(w)] = truncated_file]
    /\ clock' = [clock EXCEPT ![w] = @ + 1]
    /\ mret' = [op |-> "crashed", wid |-> w]
    /\ UNCHANGED <<nrecorded, hvars, ovars, cvars>>

\* the calls made after a restart, on files a crash may have truncated
RecoveryData == {[plan_file |-> "a", issue_number |-> "1"], [files_changed |-> "x"]}

RecoveryNext ==
    \/ CrashInHandoffSave("w1")
    \/ CrashInMetricsSave("w1")
    \/ \E p \in {"plan", "build"}, d \in RecoveryData : Save("w1", p, d)
    \/ Load("w1")
    \/ \E a \in TimedArgs : RecordPhase("w1", "plan", a)
    \/ LoadMetrics("w1")

\* the arguments of the calls of processes working on different WIDs
OwnerArgs ==
    {a \in TimedArgs : a.duration_seconds = Some(2) /\ a.output_tokens = None}

\* processes working on different WIDs save, clear and record
OwnerNext ==
    \/ \E w \in WIDs, d \in RecoveryData : Save(w, "plan", d)
    \/ \E w \in WIDs : Clear(w)
    \/ \E w \in WIDs, a \in OwnerArgs : RecordPhase(w, "plan", a)

\* instances of both classes for one WID: an instance holds its adw_id and
\* its path and nothing of the record, so whichever instance makes a call,
\* one created before or after the last write, the call is the same step
ReadsNext ==
    \/ \E p \in {"plan", "build"}, d \in RecoveryData : Save("w1", p, d)
    \/ Clear("w1")
    \/ Load("w1")
    \/ \E p \in {"plan", "build"} : GetPhase("w1", p)
    \/ \E p \in {"build", "test"} : LoadForPhase("w1", p)
    \/ \E p \in MetricPhases, a \in OwnerArgs : RecordPhase("w1", p, a)
    \/ GetWorkflowSummary("w1")

-----------------------------------------------------------------------------
(* Two processes that use the instances of one WID at the same time: save  *)
(* and record_phase are a load followed by a write, and the processes take *)
(* these steps in any order.                                               *)

Procs == {"p1", "p2"}

\* no process is inside a call
CIdle ==
    /\ h_call = [pr \in Procs |-> None]
    /\ m_call = [pr \in Procs |-> None]
    /\ overlapped = FALSE

\* the calls on the record of wid that have loaded and not written yet
InFlight(calls, w) == {pr \in Procs : calls[pr] # None /\ Val(calls[pr]).wid = w}

\* save, first step: handoff = self.load() if the file exists else {}
SaveLoads(pr, w, phase, data) ==
    /\ h_call[pr] = None /\ m_call[pr] = None
    /\ nsaves < MaxSaves
    /\ ~json_load_raises(handoff_file[handoff_file_of(w)])
    /\ h_call' = [h_call EXCEPT ![pr] =
                     Some([wid |-> w, phase |-> phase, data |-> data,
                           file |-> handoff_file[handoff_file_of(w)]])]
    /\ nsaves' = nsaves + 1
    /\ UNCHANGED <<handoff_file, saved, hret, m_call, overlapped, mvars, ovars>>

\* save, second step: handoff[phase] = data and json.dump of what was loaded
SaveWrites(pr) ==
    /\ h_call[pr] # None
    /\ LET c == Val(h_call[pr])
       IN  /\ handoff_file' = [handoff_file EXCEPT ![handoff_file_of(c.wid)] =
                                  handoff_save(c.file, c.phase, c.data)]
           /\ saved' = [saved EXCEPT ![c.wid] =
                           [p \in DOMAIN @ \cup {c.phase} |->
                               IF p = c.phase THEN c.data ELSE @[p]]]
           /\ hret' = [op |-> "save", phase |-> c.phase, val |-> EmptyMap, proc |-> pr]
           /\ overlapped' = (overlapped \/ InFlight(h_call, c.wid) # {pr})
    /\ h_call' = [h_call EXCEPT ![pr] = None]
    /\ UNCHANGED <<nsaves, m_call, mvars, ovars>>

\* record_phase, first step: metrics = self.load()
RecordLoads(pr, w, phase, a) ==
    /\ h_call[pr] = None /\ m_call[pr] = None
    /\ clock[w] + Cardinality(InFlight(m_call, w)) < MaxRecords
    /\ ~json_load_raises(metrics_file[metrics_file_of(w)])
    /\ m_call' = [m_call EXCEPT ![pr] =
                     Some([wid |-> w, phase |-> phase, args |-> a,
                           file |-> metrics_file[metrics_file_of(w)]])]
    /\ UNCHANGED <<h_call, overlapped, hvars, mvars, ovars>>

\* record_phase, second step: the sample is appended to what was loaded and
\* self.save(metrics) writes it
RecordWrites(pr) ==
    /\ m_call[pr] # None
    /\ LET c == Val(m_call[pr])
       IN  /\ metrics_file' = [metrics_file EXCEPT ![metrics_file_of(c.wid)] =
                                  record_phase(c.file, c.phase, clock[c.wid], c.args)]
           /\ clock' = [clock EXCEPT ![c.wid] = @ + 1]
           /\ nrecorded' = [nrecorded EXCEPT ![c.wid][c.phase] = @ + 1]
           /\ mret' = [op |-> "record_phase", wid |-> c.wid, phase |-> c.phase,
                       args |-> c.args, proc |-> pr]
           /\ overlapped' = (overlapped \/ InFlight(m_call, c.wid) # {pr})
    /\ m_call' = [m_call EXCEPT ![pr] = None]
    /\ UNCHANGED <<h_call, hvars, ovars>>

SharedNext ==
    \/ \E pr \in Procs, p \in {"plan", "build"} :
           SaveLoads(pr, "w1", p, [plan_file |-> "a"])
    \/ \E pr \in Procs : SaveWrites(pr)
    \/ \E pr \in Procs, a \in OwnerArgs : RecordLoads(pr, "w1", "plan", a)
    \/ \E pr \in Procs : RecordWrites(pr)

-----------------------------------------------------------------------------
(* adw_plan_build_test_iso.py                                              *)

\* len(sys.argv), the script name included, once --skip-e2e is removed
Argcs == {1, 2, 3}

\* subprocess return codes
ReturnCodes == {0, 1, 2}

\* the phase scripts in the order main runs them
pipeline_phases == <<"plan", "build", "test">>

\* the phase main goes on to after ph returned 0
next_phase(ph) ==
    LET i == CHOOSE j \in 1..Len(pipeline_phases) : pipeline_phases[j] = ph
    IN  IF i < Len(pipeline_phases) THEN pipeline_phases[i + 1] ELSE "completed"

after_return_ignoring_rc(ph, rc) == next_phase(ph)

\* where main goes when the phase script returned rc
after_return(ph, rc) == IF rc # 0 THEN "exited" ELSE next_phase(ph)

PIdle ==
    /\ p_pc = "not_started"
    /\ p_log = <<>>
    /\ p_exit = None
    /\ p_skip_e2e = FALSE

\* main up to the first subprocess.run: the flag, the usage check, ensure_adw_id
PStart(argc, skip_e2e) ==
    /\ prog = "plan_build_test" /\ p_pc = "not_started"
    /\ p_skip_e2e' = skip_e2e
    /\ IF argc < 2
       THEN p_pc' = "exited" /\ p_exit' = Some(1)
       ELSE p_pc' = pipeline_phases[1] /\ p_exit' = None
    /\ UNCHANGED <<p_log, prog, cvars, evars, xvars, hvars, mvars>>

\* subprocess.run(<phase>_cmd) starts the phase script and blocks
PRun(ph) ==
    /\ prog = "plan_build_test" /\ p_pc = ph
    /\ p_pc' = "running"
    /\ p_log' = Append(p_log, [ev |-> "start", phase |-> ph, rc |-> 0,
                               skip_e2e |-> (ph = "test" /\ p_skip_e2e)])
    /\ UNCHANGED <<p_exit, p_skip_e2e, prog, cvars, evars, xvars, hvars, mvars>>

\* the phase script returns; a non-zero return code ends the run with exit 1
PReturn(rc) ==
    /\ prog = "plan_build_test" /\ p_pc = "running"
    /\ LET ph == p_log[Len(p_log)].phase
       IN  /\ p_log' = Append(p_log, [ev |-> "return", phase |-> ph, rc |-> rc,
                                      skip_e2e |-> FALSE])
           /\ p_pc' = after_return(ph, rc)
           /\ p_exit' = IF p_pc' = "exited" THEN Some(1) ELSE None
    /\ UNCHANGED <<p_skip_e2e, prog, cvars, evars, xvars, hvars, mvars>>

\* main returns after the last phase: the interpreter exits with status 0
PFinish ==
    /\ prog = "plan_build_test" /\ p_pc = "completed"
    /\ p_pc' = "exited" /\ p_exit' = Some(0)
    /\ UNCHANGED <<p_log, p_skip_e2e, prog, cvars, evars, xvars, hvars, mvars>>

PNext ==
    \/ \E argc \in Argcs, skip_e2e \in BOOLEAN : PStart(argc, skip_e2e)
    \/ \E ph \in {"plan", "build", "test"} : PRun(ph)
    \/ \E rc \in ReturnCodes : PReturn(rc)
    \/ PFinish

-----------------------------------------------------------------------------
(* adw_expert_invoice.py                                                   *)

MaxRuns == 2

\* the WID of the run: sys.argv[2], or a fresh make_adw_id() on a first run
ExpertWid == "w1"

\* what execute_template returns (AgentPromptResponse)
Responses ==
    [ success : {TRUE}, output : {"specs/plan.md"},
      output_tokens : {Some(200)}, total_cost_usd : {None, Some(5000)} ]
    \cup
    [ success : {FALSE}, output : {"error"},
      output_tokens : {None}, total_cost_usd : {None, Some(5000)} ]

expert_phases == <<"expert_plan", "expert_build", "expert_improve">>

\* the output_style each expert request asks for
expert_style(ph) ==
    IF ph = "expert_build" THEN "concise-done" ELSE "verbose-yaml-structured"

\* the keyword arguments of the three metrics.record_phase calls
expert_record_args(ph, response) ==
    [ input_tokens     |-> None,
      output_tokens    |-> response.output_tokens,
      output_style     |-> Some(expert_style(ph)),
      duration_seconds |-> None,
      cost_usd         |-> response.total_cost_usd ]

\* the dictionaries handed to handoff.save
expert_handoff(ph, plan_file) ==
    IF ph = "expert_plan"
    THEN [plan_file |-> plan_file, task_description |-> "task"]
    ELSE [plan_file |-> plan_file, build_status |-> "success"]

\* the keys of summary that the summary section subscripts
summary_keys_read == {"total_phases", "total_output_tokens", "total_cost", "phases"}

EIdle ==
    /\ e_pc = "not_started"
    /\ e_exit = None
    /\ e_trace = <<>>
    /\ e_runs = 0
    /\ e_plan_file = ""

\* main up to the plan request: the usage check, the logger, the ECE components
EStart(argc) ==
    /\ prog = "expert" /\ e_pc = "not_started"
    /\ e_runs' = e_runs + 1
    /\ IF argc < 2
       THEN e_pc' = "exited" /\ e_exit' = Some(1)
       ELSE e_pc' = "expert_plan" /\ e_exit' = None
    /\ UNCHANGED <<e_trace, e_plan_file, prog, cvars, pvars, xvars, hvars, mvars>>

\* one entry of the run's trace
Event(ev, ph, ok, context) == [ev |-> ev, phase |-> ph, ok |-> ok, context |-> context]

\* execute_template(plan_request): the plan request carries no context
EInvokePlan ==
    /\ prog = "expert" /\ e_pc = "expert_plan"
    /\ e_trace' = Append(e_trace, Event("invoke", "expert_plan", TRUE, None))
    /\ e_pc' = "wait_expert_plan"
    /\ UNCHANGED <<e_exit, e_runs, e_plan_file, prog, cvars, pvars, xvars, hvars, mvars>>

\* handoff.load_for_phase(ph), then execute_template with that context
EInvokeWithContext(ph) ==
    /\ prog = "expert" /\ e_pc = ph /\ ph \in {"expert_build", "expert_improve"}
    /\ DoLoadForPhase(ExpertWid, ph)
    /\ e_trace' = Append(e_trace,
                     Event("invoke", ph, TRUE,
                           Some(load_for_phase(handoff_file[handoff_file_of(ExpertWid)], ph))))
    /\ e_pc' = "wait_" \o ph
    /\ UNCHANGED <<e_exit, e_runs, e_plan_file, prog, cvars, pvars, xvars, mvars>>

is_hard_all(ph) == TRUE

is_hard_none(ph) == FALSE

\* whether main calls sys.exit(1) when the phase's response reports failure
is_hard(ph) == ph \in {"expert_plan", "expert_build"}

\* execute_template returns for plan or build: exit 1 on failure, else the
\* metrics are recorded and the context for the next phase is saved
EReturnSaving(ph, response) ==
    /\ prog = "expert" /\ e_pc = "wait_" \o ph /\ ph \in {"expert_plan", "expert_build"}
    /\ IF ~response.success /\ is_hard(ph)
       THEN /\ e_pc' = "exited" /\ e_exit' = Some(1)
            /\ e_trace' = Append(e_trace, Event("return", ph, FALSE, None))
            /\ UNCHANGED <<e_plan_file, hvars, mvars>>
       ELSE /\ e_plan_file' = IF ph = "expert_plan" THEN response.output ELSE e_plan_file
            /\ DoRecordPhase(ExpertWid, ph, expert_record_args(ph, response))
            /\ DoSave(ExpertWid, ph, expert_handoff(ph, e_plan_file'))
            /\ e_trace' = e_trace \o << Event("return", ph, response.success, None),
                                       Event("record", ph, TRUE, None),
                                       Event("save", ph, TRUE, None) >>
            /\ e_pc' = IF ph = "expert_plan" THEN "expert_build" ELSE "expert_improve"
            /\ e_exit' = None
    /\ UNCHANGED <<e_runs, prog, cvars, pvars, xvars>>

\* execute_template returns for improve: exit 1 if the phase is hard and
\* failed, else (failed or not) the metrics are recorded
EReturnImprove(response) ==
    /\ prog = "expert" /\ e_pc = "wait_expert_improve"
    /\ IF ~response.success /\ is_hard("expert_improve")
       THEN /\ e_pc' = "exited" /\ e_exit' = Some(1)
            /\ e_trace' = Append(e_trace, Event("return", "expert_improve", FALSE, None))
            /\ UNCHANGED mvars
       ELSE /\ DoRecordPhase(ExpertWid, "expert_improve",
                             expert_record_args("expert_improve", response))
            /\ e_trace' = e_trace \o
                   << Event("return", "expert_improve", response.success, None),
                      Event("record", "expert_improve", TRUE, None) >>
            /\ e_pc' = "summary"
            /\ e_exit' = None
    /\ UNCHANGED <<e_runs, e_plan_file, prog, cvars, pvars, xvars, hvars>>

\* summary = metrics.get_workflow_summary()
ESummary ==
    /\ prog = "expert" /\ e_pc = "summary"
    /\ DoGetWorkflowSummary(ExpertWid)
    /\ e_trace' = Append(e_trace, Event("summary", "", TRUE, None))
    /\ e_pc' = "print_summary"
    /\ UNCHANGED <<e_exit, e_runs, e_plan_file, prog, cvars, pvars, xvars, hvars>>

\* the prints of the summary section to the end of main: a subscript with a
\* key the summary lacks raises KeyError, which ends the process with status 1
EPrintSummary ==
    /\ prog = "expert" /\ e_pc = "print_summary"
    /\ e_pc' = "exited"
    /\ IF summary_keys_read \subseteq DOMAIN mret.summary
       THEN /\ e_exit' = Some(0)
            /\ e_trace' = Append(e_trace, Event("completed", "", TRUE, None))
       ELSE /\ e_exit' = Some(1)
            /\ e_trace' = Append(e_trace, Event("KeyError", "", FALSE, None))
    /\ UNCHANGED <<e_runs, e_plan_file, prog, cvars, pvars, xvars, hvars, mvars>>

\* the workflow is invoked again with the same WID
ERestart ==
    /\ prog = "expert" /\ e_pc = "exited" /\ e_runs < MaxRuns
    /\ e_pc' = "not_started" /\ e_exit' = None /\ e_trace' = <<>>
    /\ e_plan_file' = ""
    /\ UNCHANGED <<e_runs, prog, cvars, pvars, xvars, hvars, mvars>>

ENext ==
    \/ \E argc \in Argcs : EStart(argc)
    \/ EInvokePlan
    \/ \E ph \in {"expert_build", "expert_improve"} : EInvokeWithContext(ph)
    \/ \E ph \in {"expert_plan", "expert_build"}, r \in Responses : EReturnSaving(ph, r)
    \/ \E r \in Responses : EReturnImprove(r)
    \/ ESummary
    \/ EPrintSummary
    \/ ERestart

-----------------------------------------------------------------------------
(* The State Store and the Isolation Allocator (adw_modules.state,         *)
(* adw_modules.worktree_ops): not part of the source files; modelled from  *)
(* their contracts in the specification, sections 3, 4.1 and 4.4.          *)

MaxOptRuns == 2
NumSlots == 2
BackendBase == 9100
FrontendBase == 9200

\* load(wid) of a WID with no persisted record: the empty record
EmptyState ==
    [ adw_id |-> None, workflow_history |-> <<>>, issue_class |-> None,
      branch_name |-> None, worktree_path |-> None, backend_port |-> None,
      frontend_port |-> None, plan_file |-> None ]

\* ADWState.load(adw_id): the persisted record, the empty record if none
state_load(disk) == IF disk = None THEN EmptyState ELSE Val(disk)

\* state.append_adw_id(name): the history log grows by one entry
append_adw_id(st, name) ==
    [st EXCEPT !.workflow_history = Append(@, name)]

\* state.save(name): the whole in-memory record replaces the persisted one
state_save(st) == Some(st)

\* every port bound by some process
BoundPorts(b) == UNION {b[w] : w \in DOMAIN b}

\* get_ports_for_adw(wid): the base ports plus the index the WID hashes to
get_ports_for_adw(w) ==
    <<BackendBase + port_index[w], FrontendBase + port_index[w]>>

\* is_port_available(port): the port can be bound now
is_port_available(port, busy) == port \notin busy

\* the offsets the forward scan of wid tries, in order
scan_order(w) == [i \in 1..NumSlots |-> (port_index[w] + i - 1) % NumSlots]

\* find_next_available_ports(wid): the first pair of the scan with both
\* ports free; None stands for the AllocationConflict it raises otherwise
find_next_available_ports(w, busy) ==
    LET free == {i \in 1..NumSlots :
                    /\ is_port_available(BackendBase + scan_order(w)[i], busy)
                    /\ is_port_available(FrontendBase + scan_order(w)[i], busy)}
    IN  IF free = {} THEN None
        ELSE LET i == CHOOSE j \in free : \A k \in free : j <= k
             IN  Some(<<BackendBase + scan_order(w)[i],
                        FrontendBase + scan_order(w)[i]>>)

\* the path create_worktree gives the checkout of wid
tree_path(w) == "trees/" \o w

\* validate_worktree(wid, state): a worktree path is recorded and exists on
\* disk, and the recorded ports are free
validate_worktree(st, trees, busy) ==
    /\ st.worktree_path # None /\ Val(st.worktree_path) \in trees
    /\ st.backend_port # None /\ is_port_available(Val(st.backend_port), busy)
    /\ st.frontend_port # None /\ is_port_available(Val(st.frontend_port), busy)

-----------------------------------------------------------------------------
(* adw_plan_optimized_example.py                                           *)

\* what execute_template returns to the optimized plan orchestrator
OResponses ==
    { [success |-> TRUE, output |-> "specs/plan.md",
       output_tokens |-> Some(200), total_cost_usd |-> Some(5000)],
      [success |-> FALSE, output |-> "error",
       output_tokens |-> None, total_cost_usd |-> None] }

\* the agent phases of main, in order
optimized_phases == <<"classify", "branch_gen", "plan">>

\* the output_style each request asks for
optimized_style(ph) == IF ph = "branch_gen" THEN "concise-done" ELSE "concise-ultra"

\* record_phase_metrics(adw_id, phase, response, start_time, output_style):
\* the keyword arguments it hands to record_phase
record_phase_metrics(response, output_style) ==
    [ input_tokens     |-> None,
      output_tokens    |-> response.output_tokens,
      output_style     |-> Some(output_style),
      duration_seconds |-> Some(2),
      cost_usd         |-> response.total_cost_usd ]

\* the keys of summary that the summary section subscripts
optimized_keys_read ==
    {"total_output_tokens", "optimization_rate", "total_cost_usd", "phase_executions"}

\* the local variables of main before the worktree section
NoLocals ==
    [ valid |-> None, worktree_path |-> None, backend_port |-> None,
      frontend_port |-> None, issue_command |-> None, branch_name |-> None ]

OIdle ==
    /\ o_pc = [w \in WIDs |-> "not_started"]
    /\ o_exit = [w \in WIDs |-> None]
    /\ o_state = [w \in WIDs |-> EmptyState]
    /\ o_disk = [w \in WIDs |-> None]
    /\ o_local = [w \in WIDs |-> NoLocals]
    /\ o_trace = [w \in WIDs |-> <<>>]
    /\ o_runs = 0
    /\ worktrees = {}
    /\ bound = [w \in WIDs |-> {}]
    /\ probed = [w \in WIDs |-> {}]

\* the run of wid ends with sys.exit(code)
OExit(w, code, ev, ph) ==
    /\ o_pc' = [o_pc EXCEPT ![w] = "exited"]
    /\ o_exit' = [o_exit EXCEPT ![w] = Some(code)]
    /\ o_trace' = [o_trace EXCEPT ![w] = Append(@, Event(ev, ph, FALSE, None))]

\* main up to the logger: the usage check, ensure_adw_id, the ECE components,
\* ADWState.load, state.update(adw_id) if none is recorded, append_adw_id
OStart(w, argc) ==
    /\ prog = "optimized" /\ o_pc[w] = "not_started" /\ o_runs < MaxOptRuns
    /\ o_runs' = o_runs + 1
    /\ IF argc < 2
       THEN /\ o_pc' = [o_pc EXCEPT ![w] = "exited"]
            /\ o_exit' = [o_exit EXCEPT ![w] = Some(1)]
            /\ UNCHANGED <<o_state, o_trace>>
       ELSE /\ o_pc' = [o_pc EXCEPT ![w] = "get_repo_url"]
            /\ o_exit' = [o_exit EXCEPT ![w] = None]
            /\ LET st == state_load(o_disk[w])
                   st1 == IF st.adw_id = None
                          THEN [st EXCEPT !.adw_id = Some(w)] ELSE st
               IN  o_state' = [o_state EXCEPT
                                 ![w] = append_adw_id(st1, "adw_plan_optimized")]
            /\ o_trace' = [o_trace EXCEPT
                             ![w] = Append(@, Event("load_state", "", TRUE, None))]
    /\ UNCHANGED <<o_disk, o_local, worktrees, bound, port_index, probed,
                   prog, cvars, pvars, evars, hvars, mvars>>

\* check_env_vars, get_repo_url, extract_repo_path: ValueError exits with 1
OGetRepoUrl(w, ok) ==
    /\ prog = "optimized" /\ o_pc[w] = "get_repo_url"
    /\ IF ok
       THEN /\ o_pc' = [o_pc EXCEPT ![w] = "setup_worktree"]
            /\ UNCHANGED <<o_exit, o_trace>>
       ELSE OExit(w, 1, "no_repo_url", "")
    /\ UNCHANGED <<o_state, o_disk, o_local, o_runs, worktrees, bound,
                   port_index, probed, prog, cvars, pvars, evars, hvars, mvars>>

allocate_ports_unprobed(w, busy) == Some(get_ports_for_adw(w))

\* the ports of the else branch of the worktree section: the deterministic
\* pair if both its ports are available, else the next available pair
allocate_ports(w, busy) ==
    LET pair == get_ports_for_adw(w)
    IN  IF ~(is_port_available(pair[1], busy) /\ is_port_available(pair[2], busy))
        THEN find_next_available_ports(w, busy)
        ELSE Some(pair)

\* the worktree section: a valid recorded environment is reused, otherwise
\* ports are allocated, recorded in the state and the state is saved
OSetupWorktree(w) ==
    /\ prog = "optimized" /\ o_pc[w] = "setup_worktree"
    /\ probed' = [probed EXCEPT ![w] = BoundPorts(bound)]
    /\ IF validate_worktree(o_state[w], worktrees, BoundPorts(bound))
       THEN /\ o_local' = [o_local EXCEPT
                             ![w].valid = Some(TRUE),
                             ![w].worktree_path = o_state[w].worktree_path,
                             ![w].backend_port = o_state[w].backend_port,
                             ![w].frontend_port = o_state[w].frontend_port]
            /\ o_pc' = [o_pc EXCEPT ![w] = "classify"]
            /\ o_trace' = [o_trace EXCEPT
                             ![w] = Append(@, Event("reuse", "", TRUE, None))]
            /\ UNCHANGED <<o_state, o_disk, o_exit>>
       ELSE LET ports == allocate_ports(w, BoundPorts(bound))
            IN  IF ports = None
                THEN /\ OExit(w, 1, "AllocationConflict", "")
                     /\ UNCHANGED <<o_state, o_disk, o_local>>
                ELSE /\ o_local' = [o_local EXCEPT
                                      ![w].valid = Some(FALSE),
                                      ![w].backend_port = Some(Val(ports)[1]),
                                      ![w].frontend_port = Some(Val(ports)[2])]
                     /\ o_state' = [o_state EXCEPT
                                      ![w].backend_port = Some(Val(ports)[1]),
                                      ![w].frontend_port = Some(Val(ports)[2])]
                     /\ o_disk' = [o_disk EXCEPT ![w] = state_save(o_state'[w])]
                     /\ o_pc' = [o_pc EXCEPT ![w] = "classify"]
                     /\ o_trace' = [o_trace EXCEPT
                                      ![w] = Append(@, Event("allocate", "", TRUE, None))]
                     /\ UNCHANGED o_exit
    /\ UNCHANGED <<o_runs, worktrees, bound, port_index,
                   prog, cvars, pvars, evars, hvars, mvars>>

\* fetch_issue and the request of a phase, then execute_template blocks; the
\* plan request carries handoff.load_for_phase("plan")
OInvoke(w, ph) ==
    /\ prog = "optimized" /\ o_pc[w] = ph /\ ph \in {"classify", "branch_gen", "plan"}
    /\ IF ph = "plan"
       THEN /\ DoLoadForPhase(w, "plan")
            /\ o_trace' = [o_trace EXCEPT ![w] = Append(@,
                             Event("invoke", ph, TRUE,
                                   Some(load_for_phase(
                                       handoff_file[handoff_file_of(w)], "plan"))))]
       ELSE /\ o_trace' = [o_trace EXCEPT
                             ![w] = Append(@, Event("invoke", ph, TRUE, None))]
            /\ UNCHANGED hvars
    /\ o_pc' = [o_pc EXCEPT ![w] = "wait_" \o ph]
    /\ UNCHANGED <<o_exit, o_state, o_disk, o_local, o_runs, worktrees, bound,
                   port_index, probed, prog, cvars, pvars, evars, mvars>>

\* execute_template returns for classify or branch_gen: the metrics are
\* recorded, failure exits with 1, else the output is recorded in the state
\* and the state is saved
OReturn(w, ph, response) ==
    /\ prog = "optimized" /\ o_pc[w] = "wait_" \o ph /\ ph \in {"classify", "branch_gen"}
    /\ DoRecordPhase(w, ph, record_phase_metrics(response, optimized_style(ph)))
    /\ IF ~response.success
       THEN /\ o_pc' = [o_pc EXCEPT ![w] = "exited"]
            /\ o_exit' = [o_exit EXCEPT ![w] = Some(1)]
            /\ o_trace' = [o_trace EXCEPT ![w] = @ \o
                             << Event("return", ph, FALSE, None),
                                Event("record", ph, TRUE, None) >>]
            /\ UNCHANGED <<o_state, o_disk, o_local>>
       ELSE /\ o_local' = IF ph = "classify"
                          THEN [o_local EXCEPT ![w].issue_command = Some("/chore")]
                          ELSE [o_local EXCEPT ![w].branch_name = Some("branch-" \o w)]
            /\ o_state' = IF ph = "classify"
                          THEN [o_state EXCEPT ![w].issue_class = Some("/chore")]
                          ELSE [o_state EXCEPT ![w].branch_name = Some("branch-" \o w)]
            /\ o_disk' = [o_disk EXCEPT ![w] = state_save(o_state'[w])]
            /\ o_pc' = [o_pc EXCEPT
                          ![w] = IF ph = "classify" THEN "branch_gen" ELSE "create_worktree"]
            /\ o_trace' = [o_trace EXCEPT ![w] = @ \o
                             << Event("return", ph, TRUE, None),
                                Event("record", ph, TRUE, None),
                                Event("save_state", ph, TRUE, None) >>]
            /\ UNCHANGED o_exit
    /\ UNCHANGED <<o_runs, worktrees, bound, port_index, probed,
                   prog, cvars, pvars, evars, hvars>>

\* the "create worktree if needed" section: nothing to do for a valid
\* environment; else create_worktree (an error exits with 1), the path is
\* recorded, the state saved and setup_worktree_environment configures it
OCreateWorktree(w, error) ==
    /\ prog = "optimized" /\ o_pc[w] = "create_worktree"
    /\ IF o_local[w].valid = Some(TRUE)
       THEN /\ o_pc' = [o_pc EXCEPT ![w] = "plan"]
            /\ UNCHANGED <<o_exit, o_trace, o_state, o_disk, o_local, worktrees>>
       ELSE IF error
            THEN /\ OExit(w, 1, "create_worktree_error", "")
                 /\ UNCHANGED <<o_state, o_disk, o_local, worktrees>>
            ELSE /\ worktrees' = worktrees \cup {tree_path(w)}
                 /\ o_local' = [o_local EXCEPT ![w].worktree_path = Some(tree_path(w))]
                 /\ o_state' = [o_state EXCEPT ![w].worktree_path = Some(tree_path(w))]
                 /\ o_disk' = [o_disk EXCEPT ![w] = state_save(o_state'[w])]
                 /\ o_pc' = [o_pc EXCEPT ![w] = "plan"]
                 /\ o_trace' = [o_trace EXCEPT ![w] = Append(@,
                                  Event("create_worktree", "", TRUE, None))]
                 /\ UNCHANGED o_exit
    /\ UNCHANGED <<o_runs, bound, port_index, probed,
                   prog, cvars, pvars, evars, hvars, mvars>>

\* execute_template returns for plan: the metrics are recorded; failure or
\* a missing plan file exits with 1; else the plan file is recorded in the
\* state, the state saved and the context for build handed off
OReturnPlan(w, response, file_exists) ==
    /\ prog = "optimized" /\ o_pc[w] = "wait_plan"
    /\ DoRecordPhase(w, "plan", record_phase_metrics(response, optimized_style("plan")))
    /\ IF ~response.success \/ ~file_exists
       THEN /\ o_pc' = [o_pc EXCEPT ![w] = "exited"]
            /\ o_exit' = [o_exit EXCEPT ![w] = Some(1)]
            /\ o_trace' = [o_trace EXCEPT ![w] = @ \o
                             << Event("return", "plan", response.success, None),
                                Event("record", "plan", TRUE, None) >>
                             \o IF response.success
                                THEN <<Event("no_plan_file", "", FALSE, None)>>
                                ELSE <<>>]
            /\ UNCHANGED <<o_state, o_disk, hvars>>
       ELSE /\ o_state' = [o_state EXCEPT ![w].plan_file = Some(response.output)]
            /\ o_disk' = [o_disk EXCEPT ![w] = state_save(o_state'[w])]
            /\ DoSave(w, "plan",
                      [ plan_file |-> response.output, issue_number |-> "1",
                        branch_name |-> Val(o_local[w].branch_name) ])
            /\ o_pc' = [o_pc EXCEPT ![w] = "commit"]
            /\ o_trace' = [o_trace EXCEPT ![w] = @ \o
                             << Event("return", "plan", TRUE, None),
                                Event("record", "plan", TRUE, None),
                                Event("save_state", "plan", TRUE, None),
                                Event("save", "plan", TRUE, None) >>]
            /\ UNCHANGED o_exit
    /\ UNCHANGED <<o_local, o_runs, worktrees, bound, port_index, probed,
                   prog, cvars, pvars, evars>>

\* commit_changes (failure exits with 1), finalize_git_operations
OCommit(w, success) ==
    /\ prog = "optimized" /\ o_pc[w] = "commit"
    /\ IF success
       THEN /\ o_pc' = [o_pc EXCEPT ![w] = "summary"]
            /\ o_trace' = [o_trace EXCEPT
                             ![w] = Append(@, Event("commit", "", TRUE, None))]
            /\ UNCHANGED o_exit
       ELSE OExit(w, 1, "commit_error", "")
    /\ UNCHANGED <<o_state, o_disk, o_local, o_runs, worktrees, bound,
                   port_index, probed, prog, cvars, pvars, evars, hvars, mvars>>

\* summary = metrics.get_workflow_summary() and the summary section to the
\* end of main: a subscript with a key the summary lacks raises KeyError
\* (status 1); else main returns (status 0)
OSummary(w) ==
    /\ prog = "optimized" /\ o_pc[w] = "summary"
    /\ DoGetWorkflowSummary(w)
    /\ IF optimized_keys_read \subseteq
          DOMAIN get_workflow_summary(w, metrics_file[metrics_file_of(w)])
       THEN /\ o_pc' = [o_pc EXCEPT ![w] = "exited"]
            /\ o_exit' = [o_exit EXCEPT ![w] = Some(0)]
            /\ o_trace' = [o_trace EXCEPT
                             ![w] = Append(@, Event("completed", "", TRUE, None))]
       ELSE OExit(w, 1, "KeyError", "")
    /\ UNCHANGED <<o_state, o_disk, o_local, o_runs, worktrees, bound,
                   port_index, probed, prog, cvars, pvars, evars, hvars>>

\* the orchestrator is invoked again with the WID of a finished run
ORestart(w) ==
    /\ prog = "optimized" /\ o_pc[w] = "exited" /\ o_runs < MaxOptRuns
    /\ o_pc' = [o_pc EXCEPT ![w] = "not_started"]
    /\ o_exit' = [o_exit EXCEPT ![w] = None]
    /\ o_trace' = [o_trace EXCEPT ![w] = <<>>]
    /\ o_local' = [o_local EXCEPT ![w] = NoLocals]
    /\ o_state' = [o_state EXCEPT ![w] = EmptyState]
    /\ UNCHANGED <<o_disk, o_runs, worktrees, bound, port_index, probed,
                   prog, cvars, pvars, evars, hvars, mvars>>

\* the servers of the configured checkout of wid start and bind its ports;
\* a port that is already bound cannot be bound again
BindPorts(w) ==
    /\ prog = "optimized" /\ o_disk[w] # None /\ bound[w] = {}
    /\ LET st == Val(o_disk[w])
       IN  /\ st.worktree_path # None /\ Val(st.worktree_path) \in worktrees
           /\ st.backend_port # None /\ st.frontend_port # None
           /\ {Val(st.backend_port), Val(st.frontend_port)} \cap BoundPorts(bound) = {}
           /\ bound' = [bound EXCEPT
                          ![w] = {Val(st.backend_port), Val(st.frontend_port)}]
    /\ UNCHANGED <<o_pc, o_exit, o_state, o_disk, o_local, o_trace, o_runs,
                   worktrees, port_index, probed, prog, cvars, pvars, evars, hvars, mvars>>

\* the checkout of wid is deleted from outside
RemoveWorktree(w) ==
    /\ prog = "optimized" /\ tree_path(w) \in worktrees
    /\ o_pc[w] = "exited" /\ bound[w] = {}
    /\ worktrees' = worktrees \ {tree_path(w)}
    /\ UNCHANGED <<o_pc, o_exit, o_state, o_disk, o_local, o_trace, o_runs,
                   bound, port_index, probed, prog, cvars, pvars, evars, hvars, mvars>>

ONext ==
    \/ \E w \in WIDs, argc \in Argcs : OStart(w, argc)
    \/ \E w \in WIDs, ok \in BOOLEAN : OGetRepoUrl(w, ok)
    \/ \E w \in WIDs : OSetupWorktree(w)
    \/ \E w \in WIDs, ph \in {"classify", "branch_gen", "plan"} : OInvoke(w, ph)
    \/ \E w \in WIDs, ph \in {"classify", "branch_gen"}, r \in OResponses :
           OReturn(w, ph, r)
    \/ \E w \in WIDs, error \in BOOLEAN : OCreateWorktree(w, error)
    \/ \E w \in WIDs, r \in OResponses, file_exists \in BOOLEAN :
           OReturnPlan(w, r, file_exists)
    \/ \E w \in WIDs, success \in BOOLEAN : OCommit(w, success)
    \/ \E w \in WIDs : OSummary(w)
    \/ \E w \in WIDs : ORestart(w)
    \/ \E w \in WIDs : BindPorts(w)
    \/ \E w \in WIDs : RemoveWorktree(w)

-----------------------------------------------------------------------------
(* Specifications                                                          *)

vars == <<hvars, mvars, ovars, cvars>>

\* no call made yet on any instance, no entry point launched
\* the WIDs hash to the same index, or to different ones
SameIndex == [w \in WIDs |-> 0]
Indexes == {SameIndex, [w \in WIDs |-> IF w = "w1" THEN 0 ELSE 1]}

Init ==
    /\ HInit /\ MInit /\ PIdle /\ EIdle /\ OIdle /\ CIdle
    /\ prog = "none" /\ port_index = SameIndex

\* calls on one ContextHandoff instance
SpecHandoff == Init /\ [][HNext]_vars

\* saves, clears and raw reads on one ContextHandoff instance
SpecHandoffReads == Init /\ [][HReadNext]_vars

\* calls of validate_handoff
SpecValidate == Init /\ [][VNext]_vars

\* saves and loads of both records, with crashes in the middle of a write
SpecRecovery == Init /\ [][RecoveryNext]_vars

\* calls on one WorkflowMetrics instance
SpecMetrics == Init /\ [][MNext]_vars

\* instances of both WIDs used side by side
SpecOwnership == Init /\ [][OwnerNext]_vars

\* writes and every kind of read on the instances of one WID
SpecReads == Init /\ [][ReadsNext]_vars

\* two processes with the same WID, their loads and writes interleaved
SpecSharedWid == Init /\ [][SharedNext]_vars

ExpertInit ==
    /\ HInit /\ MInit /\ PIdle /\ EIdle /\ OIdle /\ CIdle
    /\ prog = "expert" /\ port_index = SameIndex

\* runs of adw_expert_invoice.py with one WID, one after the other
SpecExpert == ExpertInit /\ [][ENext]_vars

EntryInit ==
    /\ HInit /\ MInit /\ PIdle /\ EIdle /\ OIdle /\ CIdle
    /\ prog \in {"plan_build_test", "expert", "optimized"}
    /\ port_index \in IF prog = "optimized" THEN Indexes ELSE {SameIndex}

\* one of the entry points is launched
SpecEntryPoints == EntryInit /\ [][PNext \/ ENext \/ ONext]_vars

OptimizedInit ==
    /\ HInit /\ MInit /\ PIdle /\ EIdle /\ OIdle /\ CIdle
    /\ prog = "optimized" /\ port_index \in Indexes

\* runs of adw_plan_optimized_example.py, one process per WID, interleaved
SpecOptimized == OptimizedInit /\ [][ONext]_vars

-----------------------------------------------------------------------------
(* C1: load_for_phase("build") returns exactly the fields currently saved  *)
(* under "plan" (the empty mapping if none), and never a field that was    *)
(* saved only under "build", "test", "review" or "ship".                   *)

SavedOnlyLater(w, k) ==
    /\ \E p \in {"build", "test", "review", "ship"} \cap DOMAIN saved[w] :
           k \in DOMAIN saved[w][p]
    /\ ~("plan" \in DOMAIN saved[w] /\ k \in DOMAIN saved[w]["plan"])

C1_BuildSeesExactlyPlan ==
    (hret.op = "load_for_phase" /\ hret.phase = "build") =>
        /\ hret.val = IF "plan" \in DOMAIN saved["w1"]
                      THEN saved["w1"]["plan"] ELSE EmptyMap
        /\ \A k \in DOMAIN hret.val : ~SavedOnlyLater("w1", k)

C1_Witness ==
    /\ hret.op = "load_for_phase" /\ hret.phase = "build"
    /\ "plan" \in DOMAIN saved["w1"] /\ saved["w1"]["plan"] # EmptyMap
    /\ "build" \in DOMAIN saved["w1"]
    /\ \E k \in DOMAIN saved["w1"]["build"] : SavedOnlyLater("w1", k)

-----------------------------------------------------------------------------
(* C2: for every phase p of the fixed order, load_for_phase(p) is the fold *)
(* of the records saved under the phases strictly before p, the later      *)
(* phase winning a key collision; nothing saved under p or a later phase   *)
(* shows in it, and load_for_phase("plan") is always the empty mapping.    *)

Pos(q) == CHOOSE i \in 1..Len(phase_order) : phase_order[i] = q

EarlierSaved(w, p) == {q \in OrderedPhases \cap DOMAIN saved[w] : Pos(q) < Pos(p)}

\* the latest phase before p whose saved record holds key k
LastWith(w, p, k) ==
    CHOOSE q \in EarlierSaved(w, p) :
        /\ k \in DOMAIN saved[w][q]
        /\ \A r \in EarlierSaved(w, p) : k \in DOMAIN saved[w][r] => Pos(r) <= Pos(q)

C2_FoldOfStrictlyEarlier ==
    (hret.op = "load_for_phase" /\ hret.phase \in OrderedPhases) =>
        /\ DOMAIN hret.val =
              UNION {DOMAIN saved["w1"][q] : q \in EarlierSaved("w1", hret.phase)}
        /\ \A k \in DOMAIN hret.val :
              hret.val[k] = saved["w1"][LastWith("w1", hret.phase, k)][k]
        /\ (hret.phase = "plan" => hret.val = EmptyMap)

C2_Witness ==
    /\ hret.op = "load_for_phase" /\ hret.phase = "test"
    /\ {"plan", "build"} \subseteq DOMAIN saved["w1"]
    /\ \E k \in DOMAIN saved["w1"]["plan"] \cap DOMAIN saved["w1"]["build"] :
           /\ saved["w1"]["plan"][k] # saved["w1"]["build"][k]
           /\ hret.val[k] = saved["w1"]["build"][k]

-----------------------------------------------------------------------------
(* C3: in the plan-build-test pipeline the phase scripts are started in    *)
(* the order plan, build, test, each only right after its predecessor      *)
(* returned 0; once a phase returns a failure nothing more is started and  *)
(* the run has ended with exit status 1 (failed).                          *)

PStarts == SelectSeq(p_log, LAMBDA e : e.ev = "start")

C3_PhasesInOrderHaltOnFailure ==
    prog = "plan_build_test" =>
        /\ Len(PStarts) <= Len(pipeline_phases)
        /\ \A i \in 1..Len(PStarts) : PStarts[i].phase = pipeline_phases[i]
        /\ \A i \in 1..Len(p_log) :
              /\ (p_log[i].ev = "start" /\ i > 1) =>
                    /\ p_log[i - 1].ev = "return" /\ p_log[i - 1].rc = 0
                    /\ next_phase(p_log[i - 1].phase) = p_log[i].phase
              /\ (p_log[i].ev = "return" /\ p_log[i].rc # 0) =>
                    /\ i = Len(p_log)
                    /\ p_pc = "exited" /\ p_exit = Some(1)

C3_Witness ==
    /\ prog = "plan_build_test"
    /\ Len(p_log) = 4
    /\ p_log[2].ev = "return" /\ p_log[2].phase = "plan" /\ p_log[2].rc = 0
    /\ p_log[4].ev = "return" /\ p_log[4].phase = "build" /\ p_log[4].rc # 0
    /\ p_pc = "exited" /\ p_exit = Some(1)

-----------------------------------------------------------------------------
(* C4: in the expert workflow a failure of a hard phase (expert plan,      *)
(* expert build) ends the run with exit status 1 before anything else is   *)
(* done; a failure of the improve phase does not: its metrics sample is    *)
(* recorded next and the run does not exit before the summary step.        *)

C4_HardHaltsSoftContinues ==
    prog = "expert" =>
        \A i \in 1..Len(e_trace) :
            (e_trace[i].ev = "return" /\ ~e_trace[i].ok) =>
                IF e_trace[i].phase \in {"expert_plan", "expert_build"}
                THEN /\ i = Len(e_trace)
                     /\ e_pc = "exited" /\ e_exit = Some(1)
                ELSE /\ i < Len(e_trace)
                     /\ e_trace[i + 1].ev = "record"
                     /\ e_trace[i + 1].phase = "expert_improve"
                     /\ e_pc \in {"summary", "print_summary", "exited"}
                     /\ e_pc # "summary" =>
                           (i + 1 < Len(e_trace) /\ e_trace[i + 2].ev = "summary")

C4_Witness ==
    /\ prog = "expert"
    /\ \E i \in 1..Len(e_trace) :
           /\ e_trace[i].ev = "return" /\ e_trace[i].phase = "expert_improve"
           /\ ~e_trace[i].ok
    /\ e_pc = "print_summary"
    /\ mret.op = "get_workflow_summary"

-----------------------------------------------------------------------------
(* C5: every entry point (the plan-build-test pipeline, the expert         *)
(* workflow, the optimized plan orchestrator) ends with exit status 2 when *)
(* it is invoked with too few arguments, 1 when a hard phase fails, and 0  *)
(* when all its phases succeed.                                            *)

\* some phase of the set returned a failure in the trace
PhaseFailed(trace, phases) ==
    \E i \in 1..Len(trace) :
        trace[i].ev = "return" /\ trace[i].phase \in phases /\ ~trace[i].ok

\* every phase of the set returned success in the trace
PhasesSucceeded(trace, phases) ==
    \A ph \in phases :
        \E i \in 1..Len(trace) :
            trace[i].ev = "return" /\ trace[i].phase = ph /\ trace[i].ok

\* the exit status is the one the three cases ask for
ExitAsSpecified(exit, usage_error, hard_failure, all_succeeded) ==
    /\ usage_error => exit = Some(2)
    /\ hard_failure => exit = Some(1)
    /\ all_succeeded => exit = Some(0)

C5_ExitCodes ==
    /\ (prog = "plan_build_test" /\ p_pc = "exited") =>
           ExitAsSpecified(p_exit, p_log = <<>>,
               \E i \in 1..Len(p_log) : p_log[i].ev = "return" /\ p_log[i].rc # 0,
               \A ph \in {"plan", "build", "test"} :
                   \E i \in 1..Len(p_log) :
                       /\ p_log[i].ev = "return" /\ p_log[i].phase = ph
                       /\ p_log[i].rc = 0)
    /\ (prog = "expert" /\ e_pc = "exited") =>
           ExitAsSpecified(e_exit, e_trace = <<>>,
               PhaseFailed(e_trace, {"expert_plan", "expert_build"}),
               PhasesSucceeded(e_trace, {"expert_plan", "expert_build",
                                         "expert_improve"}))
    /\ \A w \in WIDs :
           (prog = "optimized" /\ o_pc[w] = "exited") =>
               ExitAsSpecified(o_exit[w], o_trace[w] = <<>>,
                   PhaseFailed(o_trace[w], {"classify", "branch_gen", "plan"}),
                   /\ PhasesSucceeded(o_trace[w], {"classify", "branch_gen", "plan"})
                   /\ \A i \in 1..Len(o_trace[w]) : o_trace[w][i].ok)

-----------------------------------------------------------------------------
(* C6: a run of the expert workflow in which plan, build and improve all   *)
(* report success completes with exit status 0, its final step that reads  *)
(* the keys of get_workflow_summary() included.                            *)

AllExpertPhasesSucceeded ==
    \A ph \in {"expert_plan", "expert_build", "expert_improve"} :
        \E i \in 1..Len(e_trace) :
            e_trace[i].ev = "return" /\ e_trace[i].phase = ph /\ e_trace[i].ok

C6_AllSuccessExitsZero ==
    (prog = "expert" /\ e_pc = "exited" /\ AllExpertPhasesSucceeded) =>
        e_exit = Some(0)

-----------------------------------------------------------------------------
(* C7: the port pairs recorded for two distinct WIDs whose runs of the     *)
(* optimized plan orchestrator overlap in time share no port, even when    *)
(* get_ports_for_adw maps both WIDs to the same pair and both runs probe   *)
(* before either has bound a port.                                         *)

\* the run of wid is under way and has assigned and recorded its ports
Assigned(w) ==
    /\ o_pc[w] \notin {"not_started", "exited"}
    /\ o_local[w].backend_port # None /\ o_local[w].frontend_port # None

\* the pair the run of wid has assigned
Pair(w) == {Val(o_local[w].backend_port), Val(o_local[w].frontend_port)}

C7_OverlappingRunsDisjointPairs ==
    \A a, b \in WIDs :
        (a # b /\ Assigned(a) /\ Assigned(b)) => Pair(a) \cap Pair(b) = {}

(* C7, as the code has it: a run assigns a pair none of whose ports was    *)
(* bound when it probed, and that pair is the one in its state; so the     *)
(* pairs of two overlapping runs share no port whenever the ports of the   *)
(* one were bound when the other probed, equal deterministic pairs or not. *)
(* Two runs that both probe before either pair is bound are not covered.   *)
C7_NoPortBoundAtProbe ==
    \A a \in WIDs :
        Assigned(a) =>
            /\ Pair(a) \cap probed[a] = {}
            /\ o_state[a].backend_port = o_local[a].backend_port
            /\ o_state[a].frontend_port = o_local[a].frontend_port
            /\ \A b \in WIDs \ {a} :
                   (Assigned(b) /\ Pair(b) \subseteq probed[a]) =>
                       Pair(a) \cap Pair(b) = {}

\* both WIDs hash to the same pair, w1's ports were bound when w2 probed,
\* and w2 has recorded the next pair
C7_Witness ==
    /\ port_index = SameIndex
    /\ Assigned("w1") /\ Assigned("w2")
    /\ Pair("w1") = {get_ports_for_adw("w1")[1], get_ports_for_adw("w1")[2]}
    /\ Pair("w1") \subseteq probed["w2"]
    /\ o_local["w2"].valid = Some(FALSE)
    /\ Pair("w2") \cap Pair("w1") = {}
    /\ o_disk["w2"] # None
    /\ Val(o_disk["w2"]).backend_port = o_local["w2"].backend_port

-----------------------------------------------------------------------------
(* C8: each record_phase call adds exactly one sample: the number of       *)
(* samples stored under a phase is the number of record_phase calls made   *)
(* for it (a second call does not overwrite the first), and the summary's  *)
(* phase_executions is the total number of samples over all phases.        *)

Samples(w, ph) ==
    LET metrics == metrics_load(metrics_file[w])
    IN  IF ph \in DOMAIN metrics THEN metrics[ph] ELSE <<>>

C8_OneSamplePerCall ==
    /\ \A ph \in MetricPhases : Len(Samples("w1", ph)) = nrecorded["w1"][ph]
    /\ mret.op = "get_workflow_summary" =>
          mret.summary.phase_executions =
              SumOver(MetricPhases, [ph \in MetricPhases |-> Len(Samples("w1", ph))])

C8_Witness ==
    /\ mret.op = "get_workflow_summary"
    /\ \E ph \in MetricPhases : nrecorded["w1"][ph] = 2
    /\ mret.summary.phase_executions = 2

-----------------------------------------------------------------------------
(* C9: the Metrics Record is append-only: a record_phase(phase, ...) step  *)
(* keeps every stored sample of every phase, in order, puts the new sample *)
(* last in the list of its phase and leaves the other lists unchanged; no  *)
(* other step changes the record.                                          *)

IsPrefix(xs, ys) == Len(xs) <= Len(ys) /\ SubSeq(ys, 1, Len(xs)) = xs

C9_Step ==
    LET old == metrics_load(metrics_file["w1"])
        new == metrics_load(metrics_file'["w1"])
    IN  IF clock' # clock
        THEN LET ph == mret'.phase
                 before == IF ph \in DOMAIN old THEN old[ph] ELSE <<>>
             IN  /\ DOMAIN new = DOMAIN old \cup {ph}
                 /\ \A q \in DOMAIN old \ {ph} : new[q] = old[q]
                 /\ Len(new[ph]) = Len(before) + 1
                 /\ IsPrefix(before, new[ph])
                 /\ new[ph][Len(new[ph])].timestamp = clock["w1"]
                 /\ new[ph][Len(new[ph])].output_tokens = mret'.args.output_tokens
        ELSE new = old

C9_AppendOnly == [][C9_Step]_vars

C9_Witness ==
    /\ mret.op = "record_phase"
    /\ Len(Samples("w1", mret.phase)) = 2
    /\ Samples("w1", mret.phase)[1].timestamp = 0
    /\ Samples("w1", mret.phase)[2].timestamp = 1

-----------------------------------------------------------------------------
(* C10: the cost stored in a sample is the supplied cost_usd whenever one  *)
(* is supplied (any value, 0 included), and input_tokens * 3 +             *)
(* output_tokens * 15 micro-dollars (a missing count as zero) only when    *)
(* cost_usd is absent; every stored sample has a numeric cost.             *)

LastSample(w, ph) == Samples(w, ph)[Len(Samples(w, ph))]

C10_CostSuppliedOrComputed ==
    mret.op = "record_phase" =>
        LET stored == LastSample("w1", mret.phase).cost_usd
            a == mret.args
        IN  /\ stored # None
            /\ a.cost_usd # None => stored = a.cost_usd
            /\ a.cost_usd = None =>
                  Val(stored) = OrZero(a.input_tokens) * PriceIn
                                + OrZero(a.output_tokens) * PriceOut

-----------------------------------------------------------------------------
(* C11: optimization_rate is (baseline_total - actual_total) /             *)
(* baseline_total, where every sample adds the baseline of its phase to    *)
(* baseline_total and adds to actual_total its recorded output_tokens (any *)
(* recorded value, 0 included), or the baseline of its phase only when     *)
(* output_tokens is absent; one plan sample with 200 output tokens gives   *)
(* 0.9.                                                                    *)

\* the <<phase, position>> of every sample of the record
SampleIds(metrics) ==
    UNION {{<<ph, i>> : i \in 1..Len(metrics[ph])} : ph \in DOMAIN metrics}

\* the sum of g[id] over the samples ids
RECURSIVE SumIds(_, _)
SumIds(ids, g) ==
    IF ids = {} THEN 0
    ELSE LET id == CHOOSE x \in ids : TRUE IN g[id] + SumIds(ids \ {id}, g)

\* what a sample adds to actual_total
ActualOf(metrics, id) ==
    LET p == metrics[id[1]][id[2]]
    IN  IF p.output_tokens # None THEN Val(p.output_tokens)
        ELSE BASELINE_OUTPUT_TOKENS(id[1])

\* two fractions are the same number
SameFrac(x, y) == x.den # 0 /\ y.den # 0 /\ x.num * y.den = y.num * x.den

C11_OptimizationRate ==
    mret.op = "get_workflow_summary" =>
        LET metrics == metrics_load(metrics_file["w1"])
            ids == SampleIds(metrics)
            baseline_total ==
                SumIds(ids, [id \in ids |-> BASELINE_OUTPUT_TOKENS(id[1])])
            actual_total == SumIds(ids, [id \in ids |-> ActualOf(metrics, id)])
        IN  /\ ids # {} =>
                  SameFrac(mret.summary.optimization_rate,
                           Frac(baseline_total - actual_total, baseline_total))
            /\ (DOMAIN metrics = {"plan"} /\ Len(metrics["plan"]) = 1
                  /\ metrics["plan"][1].output_tokens = Some(200)) =>
                  SameFrac(mret.summary.optimization_rate, Frac(9, 10))

-----------------------------------------------------------------------------
(* C12: get_workflow_summary on a WID with no recorded samples returns 0   *)
(* for total input tokens, total output tokens, total cost, phases,        *)
(* phase_executions and the average duration, and an optimization_rate of  *)
(* 0.0; no quotient of a summary has a zero divisor.                       *)

NothingRecorded(w) == \A ph \in RecordedPhases : nrecorded[w][ph] = 0

C12_EmptySummaryIsZero ==
    mret.op = "get_workflow_summary" =>
        LET summary == mret.summary
        IN  /\ summary.optimization_rate.den # 0
            /\ summary.avg_duration_seconds.den # 0
            /\ \A ph \in DOMAIN summary.phases_breakdown :
                   summary.phases_breakdown[ph].avg_output_tokens.den # 0
            /\ NothingRecorded(mret.wid) =>
                  /\ summary.total_input_tokens = 0
                  /\ summary.total_output_tokens = 0
                  /\ summary.total_cost_usd = 0
                  /\ summary.phases = 0
                  /\ summary.phase_executions = 0
                  /\ summary.avg_duration_seconds = Frac(0, 1)
                  /\ summary.optimization_rate = Frac(0, 1)
                  /\ summary.phases_breakdown = EmptyMap

C12_Witness ==
    /\ mret.op = "get_workflow_summary" /\ mret.wid = "w1"
    /\ NothingRecorded("w1")
    /\ ~metrics_file["w1"].exists
    /\ mret.summary.optimization_rate = Frac(0, 1)

-----------------------------------------------------------------------------
(* C13: after any sequence of record_phase calls the summary's             *)
(* total_input_tokens and total_output_tokens are the sums over all        *)
(* samples (an absent count is 0), total_cost_usd is the sum of the        *)
(* samples' costs, phases is the number of distinct phase names recorded,  *)
(* and avg_duration_seconds is the mean duration over exactly the samples  *)
(* that have a duration (0 when none has).                                 *)

\* the number in a field of a sample, 0 if absent
NumberOf(metrics, id, field) ==
    LET v == metrics[id[1]][id[2]][field]
    IN  IF v = None THEN 0 ELSE Val(v)

\* the sum of a field over the samples ids
SumField(metrics, ids, field) ==
    SumIds(ids, [id \in ids |-> NumberOf(metrics, id, field)])

C13_SummaryTotals ==
    mret.op = "get_workflow_summary" =>
        LET summary == mret.summary
            metrics == metrics_load(metrics_file[mret.wid])
            ids == SampleIds(metrics)
            timed == {id \in ids : metrics[id[1]][id[2]].duration_seconds # None}
        IN  /\ summary.total_input_tokens = SumField(metrics, ids, "input_tokens")
            /\ summary.total_output_tokens = SumField(metrics, ids, "output_tokens")
            /\ summary.total_cost_usd = SumField(metrics, ids, "cost_usd")
            /\ summary.phases =
                  Cardinality({ph \in RecordedPhases : nrecorded[mret.wid][ph] > 0})
            /\ SameFrac(summary.avg_duration_seconds,
                        IF timed = {} THEN Frac(0, 1)
                        ELSE Frac(SumField(metrics, timed, "duration_seconds"),
                                  Cardinality(timed)))

\* two samples, only one of them with a duration, both with output tokens
C13_Witness ==
    /\ mret.op = "get_workflow_summary" /\ mret.wid = "w1"
    /\ LET metrics == metrics_load(metrics_file["w1"])
           ids == SampleIds(metrics)
       IN  /\ Cardinality(ids) = 2
           /\ Cardinality({id \in ids :
                  metrics[id[1]][id[2]].duration_seconds # None}) = 1
           /\ \E ph \in DOMAIN metrics : Len(metrics[ph]) = 2
    /\ mret.summary.total_output_tokens = 400
    /\ mret.summary.total_input_tokens = 1000

-----------------------------------------------------------------------------
(* C14: save validates the data against the schema of the phase, so every  *)
(* record stored in the Handoff Record under a phase that declares a       *)
(* schema (plan, build, test, review, ship) contains all the required keys *)
(* of that phase.                                                          *)

\* the keys in a list
KeysIn(keys) == {keys[i] : i \in 1..Len(keys)}

C14_StoredRecordsSatisfySchema ==
    LET handoff == handoff_load(handoff_file["w1"])
    IN  \A phase \in OKeys(handoff) \cap DOMAIN HANDOFF_SCHEMAS :
            KeysIn(HANDOFF_SCHEMAS[phase].required) \subseteq DOMAIN OGet(handoff, phase)

-----------------------------------------------------------------------------
(* C15: validate_handoff(phase, data) is (True, None) for every data when  *)
(* the phase declares no schema; for a phase with a schema it is valid     *)
(* exactly when every required key is in data, and otherwise (False, a     *)
(* non-empty error that names the phase and the missing keys); optional    *)
(* and extra keys never change the result.                                 *)

\* the required keys of the phase that data lacks
MissingKeys(phase, data) ==
    KeysIn(HANDOFF_SCHEMAS[phase].required) \ DOMAIN data

\* the required keys named in the message, given what the message must be
NamesExactly(message, phase, missing) ==
    \E named \in SUBSET KeysIn(HANDOFF_SCHEMAS[phase].required) :
        /\ named = missing
        /\ \E order \in [1..Cardinality(named) -> named] :
               /\ \A i, j \in DOMAIN order : i # j => order[i] # order[j]
               /\ message = "Missing required keys for " \o phase \o ": "
                            \o Join(order)

C15_ValidateHandoff ==
    hret.op = "validate_handoff" =>
        LET phase == hret.phase
            data == hret.data
            is_valid == hret.val[1]
            error == hret.val[2]
        IN  IF phase \notin DOMAIN HANDOFF_SCHEMAS
            THEN is_valid /\ error = None
            ELSE /\ is_valid <=> MissingKeys(phase, data) = {}
                 /\ is_valid => error = None
                 /\ ~is_valid =>
                       /\ error # None /\ Val(error) # ""
                       /\ NamesExactly(Val(error), phase, MissingKeys(phase, data))
                 /\ \A other \in ValidatedData :
                       (DOMAIN other \cap KeysIn(HANDOFF_SCHEMAS[phase].required)
                          = DOMAIN data \cap KeysIn(HANDOFF_SCHEMAS[phase].required))
                       => validate_handoff(phase, other) = hret.val

\* plan data with an optional key and one of the two required keys
C15_Witness ==
    /\ hret.op = "validate_handoff" /\ hret.phase = "plan"
    /\ DOMAIN hret.data = {"plan_file", "branch_name"}
    /\ hret.val = <<FALSE, Some("Missing required keys for plan: issue_number")>>

-----------------------------------------------------------------------------
(* C16: for a phase name outside the fixed order load_for_phase returns    *)
(* the fold of the records of all the phases in the Handoff Record: every  *)
(* saved key is in the result, with the value of one of the phases that    *)
(* saved it, the record saved under that phase name itself included.       *)

C16_UnknownPhaseFoldsAll ==
    (hret.op = "load_for_phase" /\ hret.phase \notin OrderedPhases) =>
        LET records == saved["w1"]
        IN  /\ DOMAIN hret.val = UNION {DOMAIN records[p] : p \in DOMAIN records}
            /\ \A k \in DOMAIN hret.val :
                   \E p \in DOMAIN records :
                       k \in DOMAIN records[p] /\ hret.val[k] = records[p][k]

\* a key saved only under the phase that asks, and one saved only under a
\* phase of the fixed order
C16_Witness ==
    /\ hret.op = "load_for_phase" /\ hret.phase = "expert_plan"
    /\ DOMAIN saved["w1"] = {"expert_plan", "build"}
    /\ saved["w1"]["expert_plan"] = [plan_file |-> "b"]
    /\ saved["w1"]["build"] = [files_changed |-> "x"]
    /\ hret.val = [plan_file |-> "b", files_changed |-> "x"]

-----------------------------------------------------------------------------
(* C17: in every run of the expert workflow, a first run or a              *)
(* re-invocation with the same WID, the context passed to the agent        *)
(* invocation of a phase holds only fields saved by the phases before it   *)
(* (expert_plan, then expert_build, then expert_improve), never a field    *)
(* that only the phase itself or a later phase saves.                      *)

\* the phases of the expert workflow before ph
ExpertPhasesBefore(ph) ==
    LET i == CHOOSE j \in 1..Len(expert_phases) : expert_phases[j] = ph
    IN  {expert_phases[j] : j \in 1..(i - 1)}

\* the fields the expert workflow saves under ph (none under expert_improve)
ExpertFieldsOf(ph) ==
    IF ph = "expert_improve" THEN {} ELSE DOMAIN expert_handoff(ph, "")

C17_ContextOnlyFromEarlierPhases ==
    prog = "expert" =>
        \A i \in 1..Len(e_trace) :
            (e_trace[i].ev = "invoke" /\ e_trace[i].context # None) =>
                DOMAIN Val(e_trace[i].context) \subseteq
                    UNION {ExpertFieldsOf(q) : q \in ExpertPhasesBefore(e_trace[i].phase)}

-----------------------------------------------------------------------------
(* C18: round trip: after save(phase, data), get_phase(phase) returns      *)
(* exactly data, the raw record, with no key of an earlier save of the     *)
(* same phase; get_phase of a phase never saved, or saved only before the  *)
(* last clear, returns None.                                               *)

C18_GetPhaseRoundTrip ==
    hret.op = "get_phase" =>
        IF hret.phase \in DOMAIN saved["w1"]
        THEN hret.val = Some(saved["w1"][hret.phase])
        ELSE hret.val = None

\* two saves were made; plan is the only phase saved since the last clear
\* and its record is the data of its last save
C18_Witness ==
    /\ hret.op = "get_phase" /\ hret.phase = "plan"
    /\ nsaves = 2 /\ DOMAIN saved["w1"] = {"plan"}
    /\ handoff_load(handoff_file["w1"]) = << <<"plan", [plan_file |-> "b"]>> >>
    /\ hret.val = Some([plan_file |-> "b"])

-----------------------------------------------------------------------------
(* C19: clear() deletes the whole Handoff Record of the WID: from a clear  *)
(* to the next save load() is empty, get_phase is None for every phase and *)
(* load_for_phase is empty for every phase name; clear on a WID with no    *)
(* record changes nothing and does not fail.                               *)

C19_ClearDeletesRecord ==
    /\ hret.op = "clear" => handoff_file["w1"] = NoFile
    /\ saved["w1"] = EmptyMap =>
          /\ ~handoff_file["w1"].exists
          /\ handoff_load(handoff_file["w1"]) = <<>>
          /\ \A p \in Phases :
                /\ get_phase(handoff_file["w1"], p) = None
                /\ load_for_phase(handoff_file["w1"], p) = EmptyMap
          /\ hret.op = "load" => hret.val = <<>>
          /\ hret.op = "get_phase" => hret.val = None

\* two saves were made, then the record was cleared and read
C19_Witness ==
    /\ nsaves = 2 /\ saved["w1"] = EmptyMap
    /\ hret.op = "get_phase" /\ hret.phase = "plan" /\ hret.val = None

-----------------------------------------------------------------------------
(* C20: loading the Handoff Record or the Metrics Record of a WID whose    *)
(* file is absent or corrupt (truncated by a crash during a whole-file     *)
(* write) yields an empty record instead of failing, so a later save or    *)
(* record_phase still succeeds.                                            *)

C20_AbsentOrCorruptLoadsEmpty ==
    /\ hret.op # "raised" /\ mret.op # "raised"
    /\ (hret.op = "load" /\ (~handoff_file["w1"].exists \/ handoff_file["w1"].corrupt))
          => hret.val = <<>>
    /\ (mret.op = "load" /\ (~metrics_file["w1"].exists \/ metrics_file["w1"].corrupt))
          => mret.val = EmptyMap

-----------------------------------------------------------------------------
(* C21: a save, a clear or a record_phase made on the instances of one     *)
(* WID leaves the Handoff Record and the Metrics Record of every other     *)
(* WID as they were, however the calls on the two WIDs interleave          *)

\* the step is a save, a clear or a record_phase on the instances of WID a
C21_WritesOn(a) ==
    \/ \E p \in Phases, d \in RecoveryData : Save(a, p, d)
    \/ Clear(a)
    \/ \E p \in RecordedPhases, args \in RecordArgs : RecordPhase(a, p, args)

C21_Step ==
    \A a \in WIDs : C21_WritesOn(a) =>
        \A b \in WIDs \ {a} :
            /\ handoff_file'[b] = handoff_file[b]
            /\ metrics_file'[b] = metrics_file[b]

C21_OtherWidsUntouched == [][C21_Step]_vars

\* both WIDs hold a Handoff Record and a Metrics Record, written in turn,
\* and the records of the two differ
C21_BothWidsWritten ==
    /\ \A w \in WIDs : handoff_file[w].exists /\ metrics_file[w].exists
    /\ handoff_file["w1"] # handoff_file["w2"]
    /\ metrics_file["w1"] # metrics_file["w2"]

-----------------------------------------------------------------------------
(* C22: every agent invocation an orchestrator made and got an answer to,  *)
(* successful or failed, is followed at once by the recording of one       *)
(* metrics sample for its phase, so the sample is there before the         *)
(* orchestrator halts on the failure                                       *)

\* in the trace t of a run every return of the agent is followed by the
\* record of its phase, and by one only
C22_RecordedOnce(t) ==
    \A i \in 1..Len(t) :
        t[i].ev = "return" =>
            /\ i < Len(t)
            /\ t[i + 1].ev = "record" /\ t[i + 1].phase = t[i].phase
            /\ i + 1 < Len(t) => t[i + 2].ev # "record"

C22_EveryInvocationRecorded ==
    /\ prog = "expert" => C22_RecordedOnce(e_trace)
    /\ prog = "optimized" => \A w \in WIDs : C22_RecordedOnce(o_trace[w])

-----------------------------------------------------------------------------
(* C23: the output of a phase is persisted only on success: a step that    *)
(* changes the Handoff Record of a WID or one of the persisted state       *)
(* fields issue_class, branch_name, plan_file is the return of an agent    *)
(* invocation that reported success, and it changes the entry and the      *)
(* field of that phase only; the step by which a run fails leaves the      *)
(* Handoff Record and the persisted state as the earlier phases wrote them *)

\* the output fields of the persisted state of a WID
C23_OutputFields(disk) ==
    LET st == state_load(disk)
    IN  <<st.issue_class, st.branch_name, st.plan_file>>

\* the step appends to trace t the successful return of an agent invocation
C23_SuccessfulReturn(t, t2) ==
    /\ Len(t2) > Len(t)
    /\ t2[Len(t) + 1].ev = "return" /\ t2[Len(t) + 1].ok

\* the entries of the phases other than ph are the same in f and f2
C23_OthersKept(f, f2, ph) ==
    \A q \in OKeys(handoff_load(f)) \ {ph} :
        /\ q \in OKeys(handoff_load(f2))
        /\ OGet(handoff_load(f2), q) = OGet(handoff_load(f), q)

C23_Step ==
    /\ prog = "expert" =>
        /\ handoff_file' # handoff_file =>
              /\ C23_SuccessfulReturn(e_trace, e_trace')
              /\ C23_OthersKept(handoff_file[ExpertWid], handoff_file'[ExpertWid],
                                e_trace'[Len(e_trace) + 1].phase)
        /\ (e_exit' = Some(1) /\ e_exit # Some(1)) => handoff_file' = handoff_file
    /\ prog = "optimized" => \A w \in WIDs :
        /\ (\/ handoff_file'[w] # handoff_file[w]
            \/ C23_OutputFields(o_disk'[w]) # C23_OutputFields(o_disk[w])) =>
              /\ C23_SuccessfulReturn(o_trace[w], o_trace'[w])
              /\ C23_OthersKept(handoff_file[w], handoff_file'[w],
                                o_trace'[w][Len(o_trace[w]) + 1].phase)
        /\ (o_exit'[w] = Some(1) /\ o_exit[w] # Some(1)) =>
              /\ handoff_file'[w] = handoff_file[w]
              /\ o_disk'[w] = o_disk[w]

C23_PersistedOnlyOnSuccess == [][C23_Step]_vars

\* the expert build failed and ended the run; the entry the plan phase
\* saved is in the Handoff Record, and there is none for the build phase
C23_FailedAfterPlan ==
    /\ prog = "expert" /\ e_exit = Some(1)
    /\ e_trace # <<>> /\ e_trace[Len(e_trace)].ev = "return"
    /\ e_trace[Len(e_trace)].phase = "expert_build" /\ ~e_trace[Len(e_trace)].ok
    /\ OKeys(handoff_load(handoff_file[ExpertWid])) = {"expert_plan"}

-----------------------------------------------------------------------------
(* C24: in the optimized plan orchestrator an invalid recorded environment *)
(* is never fatal: no run ends in the worktree sections; a run that found  *)
(* the environment invalid goes on to allocate ports, record them and      *)
(* create a worktree                                                       *)

\* the positions of the events ev in the trace of the run of wid
C24_At(w, ev) == {i \in 1..Len(o_trace[w]) : o_trace[w][i].ev = ev}

\* the positions of the plan invocation in the trace of the run of wid
C24_PlanInvoked(w) ==
    {i \in C24_At(w, "invoke") : o_trace[w][i].phase = "plan"}

-----------------------------------------------------------------------------
(* C25: in the optimized plan orchestrator every mutation of the state     *)
(* (state.update, the history append) has been persisted by a state.save   *)
(* when the process blocks on an agent invocation and when it exits: the   *)
(* persisted record is then the in-memory one                              *)

C25_SavedBeforeBlockingOrExit ==
    \A w \in WIDs :
        ( /\ \E i \in 1..Len(o_trace[w]) : o_trace[w][i].ev = "load_state"
          /\ o_pc[w] \in {"wait_classify", "wait_branch_gen", "wait_plan", "exited"} )
        => o_disk[w] = Some(o_state[w])

-----------------------------------------------------------------------------
(* C26: every read of ContextHandoff and WorkflowMetrics (load,            *)
(* load_for_phase, get_phase, get_workflow_summary) returns what the       *)
(* record persisted for the WID holds at the time of the call: exactly     *)
(* what the saves, clears and record_phase calls made so far for the WID   *)
(* have left, whichever instance made them                                 *)

\* what the calls made so far for wid have left in its Handoff Record
C26_Persisted(w) == saved[w]

C26_ReadsSeePersisted ==
    /\ hret.op = "load" =>
          /\ OKeys(hret.val) = DOMAIN C26_Persisted("w1")
          /\ \A p \in OKeys(hret.val) : OGet(hret.val, p) = C26_Persisted("w1")[p]
          /\ Len(hret.val) = Cardinality(DOMAIN C26_Persisted("w1"))
    /\ hret.op = "get_phase" =>
          hret.val = IF hret.phase \in DOMAIN C26_Persisted("w1")
                     THEN Some(C26_Persisted("w1")[hret.phase]) ELSE None
    /\ hret.op = "load_for_phase" =>
          /\ DOMAIN hret.val =
                UNION {DOMAIN C26_Persisted("w1")[q] : q \in EarlierSaved("w1", hret.phase)}
          /\ \A k \in DOMAIN hret.val :
                hret.val[k] = C26_Persisted("w1")[LastWith("w1", hret.phase, k)][k]
    /\ mret.op = "get_workflow_summary" =>
          /\ mret.summary.phase_executions = SumOver(RecordedPhases, nrecorded["w1"])
          /\ mret.summary.phases =
                Cardinality({ph \in RecordedPhases : nrecorded["w1"][ph] > 0})
          /\ DOMAIN mret.summary.phases_breakdown =
                {ph \in RecordedPhases : nrecorded["w1"][ph] > 0}

\* a load that returns the records of two saves, made after two record_phase
\* calls were summarized
C26_LoadSeesBothSaves ==
    /\ hret.op = "load" /\ Len(hret.val) = 2
    /\ hret.val[1] = <<"plan", C26_Persisted("w1")["plan"]>>
    /\ mret.op = "get_workflow_summary" /\ mret.summary.phase_executions = 2

-----------------------------------------------------------------------------
(* C27: save(phase, data) changes only the entry of that phase: every      *)
(* other phase of the Handoff Record has the same record before and after  *)
(* the call, no entry is removed, and the only entry that may be new is    *)
(* the one of the phase saved                                              *)

C27_Step ==
    \A p \in Phases, d \in HandoffData :
        Save("w1", p, d) =>
            LET before == handoff_load(handoff_file["w1"])
                after  == handoff_load(handoff_file'["w1"])
            IN  /\ OKeys(after) = OKeys(before) \cup {p}
                /\ \A q \in OKeys(before) \ {p} : OGet(after, q) = OGet(before, q)
                /\ OGet(after, p) = d
                /\ Len(after) = Cardinality(OKeys(after))

C27_SaveChangesOnlyItsPhase == [][C27_Step]_vars

\* the second save, of build, was made on a record that held plan, and the
\* record of plan is the one saved first
C27_SavedNextToAnother ==
    /\ hret.op = "save" /\ hret.phase = "build" /\ nsaves = 2
    /\ OKeys(handoff_load(handoff_file["w1"])) = {"plan", "build"}
    /\ OGet(handoff_load(handoff_file["w1"]), "plan") = saved["w1"]["plan"]
    /\ saved["w1"]["plan"] # EmptyMap

-----------------------------------------------------------------------------
(* C28: no completed write is lost: the Metrics Record of a WID holds as   *)
(* many samples as record_phase calls have completed for it, and the       *)
(* Handoff Record holds the entry of every phase that a completed save     *)
(* wrote, even when two processes with the same WID interleave the load    *)
(* and write steps of their calls                                          *)

\* the number of samples in the Metrics Record of wid
C28_Samples(w) ==
    LET metrics == metrics_load(metrics_file[w])
    IN  SumOver(DOMAIN metrics, [ph \in DOMAIN metrics |-> Len(metrics[ph])])

\* the number of record_phase calls completed for wid
C28_Completed(w) == SumOver(RecordedPhases, nrecorded[w])

\* the records of wid hold everything the completed calls wrote
C28_AllWritesKept(w) ==
    /\ C28_Samples(w) = C28_Completed(w)
    /\ \A p \in DOMAIN saved[w] :
          /\ p \in OKeys(handoff_load(handoff_file[w]))
          /\ OGet(handoff_load(handoff_file[w]), p) = saved[w][p]

C28_NoCompletedWriteLost == \A w \in WIDs : C28_AllWritesKept(w)

(* C28, as the code has it: no completed write is lost as long as no call  *)
(* wrote a record while another call on the same record was between its    *)
(* load and its write, which is the case when one process owns the WID at  *)
(* a time; calls of two processes with the same WID that interleave can    *)
(* overwrite each other's write.                                           *)
C28_NoWriteLostWithoutOverlap ==
    ~overlapped => \A w \in WIDs : C28_AllWritesKept(w)

\* both processes have written the records of the WID, one call after the
\* other: two saves of distinct phases, the second by p2, and two samples,
\* the second by p1
C28_BothProcessesWrote ==
    /\ ~overlapped
    /\ DOMAIN saved["w1"] = {"plan", "build"}
    /\ hret.op = "save" /\ hret.proc = "p2"
    /\ C28_Completed("w1") = 2
    /\ mret.op = "record_phase" /\ mret.proc = "p1"
    /\ C28_Samples("w1") = 2

====
